---------------------------- MODULE Spec2Model ----------------------------
(***************************************************************************)
(* A model of certus: the on-chain state interpreter of the Stylus         *)
(* executor, the module validators, the Python-to-Wasm compiler and the    *)
(* Wasm code its emitters produce.                                         *)
(*                                                                         *)
(* The module holds several specifications over one set of variables.     *)
(* Each specification's Init fixes every variable, and each action leaves  *)
(* the variables of the other specifications unchanged.                    *)
(***************************************************************************)
EXTENDS Integers, Sequences, FiniteSets, TLC

(***************************************************************************)
(* 32-bit integers.  A Wasm i32 is held as a signed integer; sums and      *)
(* differences are wrapped without ever forming a number outside the       *)
(* signed 32-bit range.                                                    *)
(***************************************************************************)
INT_MAX == 2147483647

INT_MIN == -2147483647 - 1

\* Let(v, F): F of v, with v evaluated once before F is applied
Let(v, F(_)) == CHOOSE out \in {F(bound) : bound \in {v}} : TRUE

\* the elements of a sequence
Range(s) == {s[n] : n \in DOMAIN s}

wrapping_add(a, b) ==
    IF b > 0 /\ a > INT_MAX - b
      THEN (a - INT_MAX - 1) + (b - INT_MAX - 1)
      ELSE IF b < 0 /\ a < INT_MIN - b
             THEN (a + INT_MAX + 1) + (b + INT_MAX + 1)
             ELSE a + b

wrapping_sub(a, b) ==
    IF b < 0 /\ a > INT_MAX + b
      THEN (a - INT_MAX - 1) - (b + INT_MAX + 1)
      ELSE IF b > 0 /\ a < INT_MIN + b
             THEN (a + INT_MAX + 1) - (b - INT_MAX - 1)
             ELSE a - b

Abs(x) == IF x < 0 THEN -x ELSE x

\* 2^31 \div m for 1 < m <= INT_MAX, formed without writing 2^31.
DivPow31(m) == (INT_MAX \div m) + (IF (INT_MAX % m) + 1 = m THEN 1 ELSE 0)

\* i32::wrapping_div: truncation toward zero, INT_MIN / -1 wraps to INT_MIN.
wrapping_div(a, b) ==
    IF b = INT_MIN THEN (IF a = INT_MIN THEN 1 ELSE 0)
    ELSE IF b = 1 THEN a
    ELSE IF a = INT_MIN
           THEN (IF b = -1 THEN INT_MIN
                 ELSE IF b > 0 THEN -DivPow31(b) ELSE DivPow31(-b))
           ELSE IF (a >= 0) = (b > 0)
                  THEN Abs(a) \div Abs(b)
                  ELSE -(Abs(a) \div Abs(b))

(***************************************************************************)
(* The 32-bit integer instructions the emitted code uses.  An i32 is held  *)
(* as the signed integer of its bit pattern; every operator stays inside   *)
(* the signed 32-bit range while it computes.                              *)
(***************************************************************************)
Hi16(a) == (a \div 65536) % 65536

Lo16(a) == a % 65536

FromHalves(h, l) ==
    IF h >= 32768 THEN (h - 65536) * 65536 + l ELSE h * 65536 + l

\* x * y modulo 2^16 and x * y divided by 2^16, for x, y in 0..65535
MulLo16(x, y) ==
    (x * (y % 256) + ((x * (y \div 256)) % 256) * 256) % 65536

MulHi16(x, y) ==
    ((x * (y % 256) + ((x * (y \div 256)) % 256) * 256) \div 65536)
        + ((x * (y \div 256)) \div 256)

wrapping_mul(a, b) ==
    FromHalves((MulHi16(Lo16(a), Lo16(b)) + MulLo16(Hi16(a), Lo16(b))
                   + MulLo16(Lo16(a), Hi16(b))) % 65536,
               MulLo16(Lo16(a), Lo16(b)))

\* bitwise combination of two 16-bit halves, one bit at a time
RECURSIVE Bits16(_, _, _, _)
Bits16(op, x, y, n) ==
    IF n = 0 THEN 0
    ELSE LET bx == x % 2
             by == y % 2
             bit == CASE op = "and" -> bx * by
                      [] op = "or"  -> IF bx + by > 0 THEN 1 ELSE 0
                      [] op = "xor" -> (bx + by) % 2
         IN  bit + 2 * Bits16(op, x \div 2, y \div 2, n - 1)

Bitwise(op, a, b) ==
    FromHalves(Bits16(op, Hi16(a), Hi16(b), 16), Bits16(op, Lo16(a), Lo16(b), 16))

\* unsigned order of two bit patterns
LtU(a, b) == IF (a >= 0) = (b >= 0) THEN a < b ELSE a >= 0

\* (x + y) modulo m for x, y in 0..m-1
AddMod(x, y, m) == IF x >= m - y THEN x - (m - y) ELSE x + y

\* unsigned remainder, b # 0
RemU(a, b) ==
    IF b > 0
    THEN IF a >= 0 THEN a % b
         ELSE LET p31 == AddMod(INT_MAX % b, 1 % b, b)
              IN  AddMod(a % b, AddMod(p31, p31, b), b)
    ELSE IF LtU(a, b) THEN a ELSE a - b

\* signed remainder, b # 0; the sign follows the dividend
RemS(a, b) ==
    IF b = INT_MIN THEN (IF a = INT_MIN THEN 0 ELSE a)
    ELSE LET m == Abs(b)
             r == a % m
         IN  IF a >= 0 \/ r = 0 THEN r ELSE r - m

\* unsigned quotient, b # 0: (a as u32).wrapping_div(b as u32) as i32
DivU(a, b) ==
    IF b < 0 THEN (IF LtU(a, b) THEN 0 ELSE 1)
    ELSE IF a >= 0 THEN a \div b
    ELSE IF b = 1 THEN a
    ELSE LET x == a + INT_MAX + 1
             r31 == AddMod(INT_MAX % b, 1 % b, b)
         IN  DivPow31(b) + (x \div b) + (IF (x % b) >= b - r31 THEN 1 ELSE 0)

Bool32(p) == IF p THEN 1 ELSE 0

(***************************************************************************)
(* 64-bit integers.  An i64 is held as the signed integer it denotes, and  *)
(* the operators below are given for the operands whose result the         *)
(* integers can hold: a and b between -INT_MAX and INT_MAX, and, for the   *)
(* unsigned operators, not a negative a over a b above 1 (an unsigned      *)
(* quotient of the order of 2^64 / b).                                     *)
(***************************************************************************)
\* i64::wrapping_div, b # 0
wrapping_div64(a, b) ==
    IF (a >= 0) = (b > 0) THEN Abs(a) \div Abs(b) ELSE -(Abs(a) \div Abs(b))

\* i64::wrapping_rem, b # 0; the sign follows the dividend
wrapping_rem64(a, b) ==
    LET r == a % Abs(b) IN IF a >= 0 \/ r = 0 THEN r ELSE r - Abs(b)

\* (a as u64).wrapping_div(b as u64) as i64, b # 0
DivU64(a, b) ==
    CASE b < 0 -> IF a < 0 /\ a >= b THEN 1 ELSE 0
      [] b > 0 /\ a >= 0 -> a \div b
      [] b = 1 /\ a < 0 -> a

\* (a as u64).wrapping_rem(b as u64) as i64, b # 0
RemU64(a, b) ==
    CASE b < 0 -> IF a < 0 /\ a >= b THEN a - b ELSE a
      [] b > 0 /\ a >= 0 -> a % b
      [] b = 1 /\ a < 0 -> 0

(***************************************************************************)
(* The state interpreter (stylus-executor/src/wasm_interpreter.rs).        *)
(***************************************************************************)
MAX_STACK_DEPTH == 1024

I32(v) == [t |-> "I32", v |-> v]

I64(v) == [t |-> "I64", v |-> v]

NoValue == [t |-> "none", v |-> 0]

(***************************************************************************)
(* The value stack is a Vec<Value>.  It is held here as the number of      *)
(* I32(0) values at its bottom together with the sequence of the values    *)
(* above them, so that a stack near its limit of 1024 is as small a value  *)
(* as an empty one.  StackSeq gives the Vec it stands for.                 *)
(***************************************************************************)
EmptyStack == [zeros |-> 0, top |-> <<>>]

Depth(stk) == stk.zeros + Len(stk.top)

StackSeq(stk) == [i \in 1..stk.zeros |-> I32(0)] \o stk.top

\* Vec::push
VecPush(stk, val) ==
    IF stk.top = <<>> /\ val = I32(0)
      THEN [stk EXCEPT !.zeros = @ + 1]
      ELSE [stk EXCEPT !.top = Append(@, val)]

\* Vec::pop on a non-empty stack: the stack left, and the value removed
VecPop(stk) ==
    IF stk.top = <<>>
      THEN [stk |-> [stk EXCEPT !.zeros = @ - 1], val |-> I32(0)]
      ELSE [stk |-> [stk EXCEPT !.top = SubSeq(@, 1, Len(@) - 1)],
            val |-> stk.top[Len(stk.top)]]

\* Interpreter::new: empty stack and locals, zeroed memory, pc 0.
New(memory_size, fuel_limit) ==
    [stack |-> EmptyStack, locals |-> <<>>, memory |-> [len |-> memory_size],
     pc |-> 0, fuel |-> fuel_limit]

\* push with the limit compared by > instead of >=.
push_off_by_one(self, val) ==
    IF Depth(self.stack) > MAX_STACK_DEPTH
      THEN [st |-> self, res |-> "stack overflow"]
      ELSE [st |-> [self EXCEPT !.stack = VecPush(@, val)], res |-> "Ok"]

push(self, val) ==
    IF Depth(self.stack) >= MAX_STACK_DEPTH
      THEN [st |-> self, res |-> "stack overflow"]
      ELSE [st |-> [self EXCEPT !.stack = VecPush(@, val)], res |-> "Ok"]

pop(self) ==
    IF Depth(self.stack) = 0
      THEN [st |-> self, res |-> "stack underflow", val |-> NoValue]
      ELSE [st |-> [self EXCEPT !.stack = VecPop(@).stk],
            res |-> "Ok", val |-> VecPop(self.stack).val]

pop_i32(self) ==
    LET r == pop(self) IN
    IF r.res = "Ok" /\ r.val.t # "I32"
      THEN [r EXCEPT !.res = "type mismatch: expected i32"]
      ELSE r

pop_i64(self) ==
    LET r == pop(self) IN
    IF r.res = "Ok" /\ r.val.t # "I64"
      THEN [r EXCEPT !.res = "type mismatch: expected i64"]
      ELSE r

\* consume_fuel without the comparison that guards the subtraction.
consume_fuel_unguarded(self, amount) ==
    [st |-> [self EXCEPT !.fuel = @ - amount], res |-> "Ok"]

consume_fuel(self, amount) ==
    IF self.fuel < amount
      THEN [st |-> self, res |-> "out of fuel"]
      ELSE [st |-> [self EXCEPT !.fuel = @ - amount], res |-> "Ok"]

\* read_leb128_u32 / _i32 / _i64: advance pc by one and yield 0.
read_leb128(self) == [self EXCEPT !.pc = @ + 1]

Fail(self, msg) == [st |-> self, res |-> msg]

\* The arm of a one-operand i32 opcode: pop, then push f(value).
Unary32(self, opcode) ==
    LET r == pop_i32(self) IN
    IF r.res # "Ok" THEN Fail(r.st, r.res)
    ELSE push(r.st, I32(IF r.val.v = 0 THEN 1 ELSE 0))

\* a division or remainder that pushes 0 when the divisor is 0
push_unless_zero_unchecked(self, b, val, zero) ==
    push(self, IF b = 0 THEN zero ELSE val)

\* The end of a division or remainder arm: the divisor b is compared with
\* 0 before the result val is computed and pushed.
push_unless_zero(self, b, val, zero) ==
    IF b = 0 THEN Fail(self, "integer divide by zero") ELSE push(self, val)

\* The arm of a two-operand i32 opcode: pop b, pop a, then push a op b.
Binary32(self, opcode) ==
    Let(pop_i32(self), LAMBDA rb :
    IF rb.res # "Ok" THEN Fail(rb.st, rb.res)
    ELSE Let(pop_i32(rb.st), LAMBDA ra :
         LET a == ra.val.v
             b == rb.val.v
             val == CASE opcode = 106 -> wrapping_add(a, b)
                      [] opcode = 107 -> wrapping_sub(a, b)
                      [] opcode = 109 -> wrapping_div(a, b)
                      [] opcode = 110 -> DivU(a, b)
                      [] opcode = 111 -> RemS(a, b)
                      [] opcode = 112 -> RemU(a, b)
         IN
         IF ra.res # "Ok" THEN Fail(ra.st, ra.res)
         ELSE IF opcode \in {106, 107} THEN push(ra.st, I32(val))
         ELSE push_unless_zero(ra.st, b, I32(val), I32(0))))

\* The arm of an i64 division or remainder opcode.
Binary64(self, opcode) ==
    Let(pop_i64(self), LAMBDA rb :
    IF rb.res # "Ok" THEN Fail(rb.st, rb.res)
    ELSE Let(pop_i64(rb.st), LAMBDA ra :
         LET a == ra.val.v
             b == rb.val.v
             val == CASE opcode = 127 -> wrapping_div64(a, b)
                      [] opcode = 128 -> DivU64(a, b)
                      [] opcode = 129 -> wrapping_rem64(a, b)
                      [] opcode = 130 -> RemU64(a, b)
         IN
         IF ra.res # "Ok" THEN Fail(ra.st, ra.res)
         ELSE push_unless_zero(ra.st, b, I64(val), I64(0))))

LocalArm(self, opcode) ==
    LET s1 == read_leb128(self)
        idx == 0
    IN
    IF idx >= Len(s1.locals) THEN Fail(s1, "local index out of bounds")
    ELSE IF opcode = 32 THEN push(s1, s1.locals[idx + 1])
    ELSE LET r == pop(s1) IN
         IF r.res # "Ok" THEN Fail(r.st, r.res)
         ELSE LET s2 == [r.st EXCEPT !.locals[idx + 1] = r.val] IN
              IF opcode = 33 THEN [st |-> s2, res |-> "Ok"]
              ELSE push(s2, r.val)

execute_opcode(self, opcode) ==
    LET f == consume_fuel(self, 1) IN
    IF f.res # "Ok" THEN f
    ELSE CASE opcode = 0 -> Fail(f.st, "unreachable executed")
           [] opcode = 1 -> [st |-> f.st, res |-> "Ok"]
           [] opcode = 65 -> push(read_leb128(f.st), I32(0))
           [] opcode = 66 -> push(read_leb128(f.st), I64(0))
           [] opcode \in {32, 33, 34} -> LocalArm(f.st, opcode)
           [] opcode = 69 -> Unary32(f.st, opcode)
           [] opcode \in {106, 107, 109, 110, 111, 112} -> Binary32(f.st, opcode)
           [] opcode \in {127, 128, 129, 130} -> Binary64(f.st, opcode)
           [] OTHER -> Fail(f.st, "unsupported opcode")

(***************************************************************************)
(* compute_state_hash.  SHA-256 is taken to be collision-free: a digest is *)
(* held as the length of the byte string it was computed from together     *)
(* with the positions and values of its non-zero bytes, which determine    *)
(* the string, so two digests are equal exactly when their inputs are.     *)
(***************************************************************************)
Sha256(bytes) ==
    <<"sha256", Len(bytes), {<<i, bytes[i]>> : i \in {j \in DOMAIN bytes : bytes[j] # 0}}>>

\* to_le_bytes of an integer of n bytes (two's complement for negatives)
RECURSIVE to_le_bytes(_, _)
to_le_bytes(v, n) ==
    IF n = 0 THEN <<>> ELSE <<v % 256>> \o to_le_bytes(v \div 256, n - 1)

ValueBytes(val) == to_le_bytes(val.v, IF val.t = "I32" THEN 4 ELSE 8)

RECURSIVE StackBytes(_)
StackBytes(vals) ==
    IF vals = <<>> THEN <<>>
    ELSE <<(IF Head(vals).t = "I32" THEN 127 ELSE 126)>>
         \o ValueBytes(Head(vals)) \o StackBytes(Tail(vals))

RECURSIVE LocalsBytes(_)
LocalsBytes(vals) ==
    IF vals = <<>> THEN <<>>
    ELSE ValueBytes(Head(vals)) \o LocalsBytes(Tail(vals))

\* The bytes fed to the hasher.  usize_bytes is the width of usize on the
\* build target: pc is a usize and is written with usize::to_le_bytes.
StateBytes(self, usize_bytes) ==
    <<1>> \o to_le_bytes(Depth(self.stack), 4) \o StackBytes(StackSeq(self.stack))
    \o <<2>> \o to_le_bytes(Len(self.locals), 4) \o LocalsBytes(self.locals)
    \o <<3>> \o [i \in 1..(IF self.memory.len < 1024 THEN self.memory.len ELSE 1024) |-> 0]
    \o <<4>> \o to_le_bytes(self.pc, usize_bytes) \o to_le_bytes(self.fuel, 8)

compute_state_hash(self, usize_bytes) == Sha256(StateBytes(self, usize_bytes))

(***************************************************************************)
(* The executor contract (stylus-executor/src/lib.rs).                     *)
(***************************************************************************)
MAX_MODULE_SIZE == 24576

PAGE_SIZE == 65536

MAX_MEMORY == 10485760

Err(code) == [ok |-> FALSE, err |-> code]

Ok(out) == [ok |-> TRUE, out |-> out]

WasmMagic == <<0, 97, 115, 109>>

WasmVersion == <<1, 0, 0, 0>>

\* b"wasi_snapshot"
WasiPattern == <<119, 97, 115, 105, 95, 115, 110, 97, 112, 115, 104, 111, 116>>

contains_pattern(data, pattern) ==
    IF Len(pattern) > Len(data) THEN FALSE
    ELSE \E i \in 0..(Len(data) - Len(pattern)) :
            SubSeq(data, i + 1, i + Len(pattern)) = pattern

\* validate_determinism without its final scan for the 0xFE prefix.
validate_determinism_no_thread_scan(wasm) ==
    IF Len(wasm) < 8 THEN Err("InvalidWasmMagic")
    ELSE IF SubSeq(wasm, 1, 4) # WasmMagic THEN Err("InvalidWasmMagic")
    ELSE IF SubSeq(wasm, 5, 8) # WasmVersion THEN Err("InvalidWasmVersion")
    ELSE IF \E i \in 9..Len(wasm) : wasm[i] \in 67..152 \/ wasm[i] \in 153..191
           THEN Err("FloatOpcodeDetected")
    ELSE IF contains_pattern(wasm, WasiPattern) THEN Err("WasiImportDetected")
    ELSE Ok(<<>>)

validate_determinism(wasm) ==
    IF Len(wasm) < 8 THEN Err("InvalidWasmMagic")
    ELSE IF SubSeq(wasm, 1, 4) # WasmMagic THEN Err("InvalidWasmMagic")
    ELSE IF SubSeq(wasm, 5, 8) # WasmVersion THEN Err("InvalidWasmVersion")
    ELSE IF \E i \in 9..Len(wasm) : wasm[i] \in 67..152 \/ wasm[i] \in 153..191
           THEN Err("FloatOpcodeDetected")
    ELSE IF contains_pattern(wasm, WasiPattern) THEN Err("WasiImportDetected")
    ELSE IF \E i \in 9..Len(wasm) : wasm[i] = 254 THEN Err("ThreadOpcodeDetected")
    ELSE Ok(<<>>)

\* execute_wasm: a fresh interpreter runs the opcode in input[0]; the bytes
\* of input after the first are not read.
execute_wasm(wasm, input, fuel_limit, mem_limit, usize_bytes) ==
    IF wasm = <<>> THEN Err("ExecutionFailed")
    ELSE IF fuel_limit = 0 THEN Err("OutOfFuel")
    ELSE LET memory_size == IF mem_limit < MAX_MEMORY THEN mem_limit ELSE MAX_MEMORY
             interpreter == New(memory_size, fuel_limit)
         IN
         IF input = <<>> THEN Err("ExecutionFailed")
         ELSE LET r == execute_opcode(interpreter, input[1]) IN
              IF r.res # "Ok" THEN Err("ExecutionFailed")
              ELSE Ok(compute_state_hash(r.st, usize_bytes))

\* The checks and the run of execute, after the call has been counted.
\* Every fuel limit drawn here is far below u64::MAX / 2, the upper limit
\* the handler also enforces.
execute(wasm, input, fuel_limit, mem_limit, usize_bytes) ==
    IF Len(wasm) > MAX_MODULE_SIZE THEN Err("ModuleTooLarge")
    ELSE IF ~(fuel_limit > 0) THEN Err("InvalidFuelLimit")
    ELSE IF ~(mem_limit >= PAGE_SIZE /\ mem_limit <= MAX_MEMORY)
           THEN Err("InvalidMemoryLimit")
    ELSE LET v == validate_determinism(wasm) IN
         IF ~v.ok THEN v
         ELSE execute_wasm(wasm, input, fuel_limit, mem_limit, usize_bytes)

compute_execution_id(wasm, input) == Sha256(wasm \o input)

\* compute_sha256 of an output that is itself a digest
compute_sha256(output) == <<"sha256", output>>

\* The result of a binary instruction on operands a (pushed first) and b.
BinaryTraps(op, a, b) ==
    \/ op \in {"I32DivS", "I32RemS", "I32RemU"} /\ b = 0
    \/ op = "I32DivS" /\ a = INT_MIN /\ b = -1

BinaryValue(op, a, b) ==
    CASE op = "I32Add"  -> wrapping_add(a, b)
      [] op = "I32Sub"  -> wrapping_sub(a, b)
      [] op = "I32Mul"  -> wrapping_mul(a, b)
      [] op = "I32DivS" -> wrapping_div(a, b)
      [] op = "I32RemS" -> RemS(a, b)
      [] op = "I32RemU" -> RemU(a, b)
      [] op = "I32And"  -> Bitwise("and", a, b)
      [] op = "I32Or"   -> Bitwise("or", a, b)
      [] op = "I32Xor"  -> Bitwise("xor", a, b)
      [] op = "I32Eq"   -> Bool32(a = b)
      [] op = "I32Ne"   -> Bool32(a # b)
      [] op = "I32LtS"  -> Bool32(a < b)
      [] op = "I32GtS"  -> Bool32(a > b)
      [] op = "I32LeS"  -> Bool32(a <= b)
      [] op = "I32GeS"  -> Bool32(a >= b)
      [] op = "I32LtU"  -> Bool32(LtU(a, b))
      [] op = "I32GtU"  -> Bool32(LtU(b, a))
      [] op = "I32GeU"  -> Bool32(~LtU(a, b))

BinaryOps ==
    {"I32Add", "I32Sub", "I32Mul", "I32DivS", "I32RemS", "I32RemU", "I32And",
     "I32Or", "I32Xor", "I32Eq", "I32Ne", "I32LtS", "I32GtS", "I32LeS",
     "I32GeS", "I32LtU", "I32GtU", "I32GeU"}

(***************************************************************************)
(* Execution of emitted code.  The emitted function body is a sequence of  *)
(* instructions <<name, immediate>>; a machine m executes it one           *)
(* instruction at a time by the rules of the WebAssembly core              *)
(* specification.  Linear memory is the imported memory of m.pages pages:  *)
(* m.mem.over maps the addresses whose byte differs from the background,   *)
(* the background being the pattern m.mem.pat repeated over                *)
(* [m.mem.lo, m.mem.hi) and zero elsewhere.                                *)
(***************************************************************************)
Background(mem, a) ==
    IF mem.lo <= a /\ a < mem.hi
    THEN mem.pat[((a - mem.lo) % Len(mem.pat)) + 1]
    ELSE 0

LoadByte(mem, a) ==
    IF a \in DOMAIN mem.over THEN mem.over[a] ELSE Background(mem, a)

Load32(mem, a) ==
    FromHalves(LoadByte(mem, a + 3) * 256 + LoadByte(mem, a + 2),
               LoadByte(mem, a + 1) * 256 + LoadByte(mem, a))

\* f with its values computed, rather than the expression that defines it
Explicit(f) == CHOOSE g \in {f} : g = g

Store(mem, a, bytes) ==
    LET addrs == a .. (a + Len(bytes) - 1)
        val(x) == IF x \in addrs THEN bytes[x - a + 1] ELSE mem.over[x]
        dom == {x \in (DOMAIN mem.over) \cup addrs : val(x) # Background(mem, x)}
    IN  [mem EXCEPT !.over = Explicit([x \in dom |-> val(x)])]

\* an access of width bytes at base + offset lies inside the memory
InBounds(m, base, offset, width) ==
    base >= 0 /\ base <= m.pages * PAGE_SIZE - offset - width

\* The nesting depth of every instruction: the blocks opened before it and
\* not yet closed.
Nesting(code) ==
    Explicit([k \in DOMAIN code |->
        Cardinality({l \in 1..(k - 1) : code[l][1] \in {"Block", "Loop", "If"}})
          - Cardinality({l \in 1..(k - 1) : code[l][1] = "End"})])

\* Index of the End (or, with stopAtElse, of the Else) that closes the
\* block of the given nesting level whose body holds instruction i.
Scan(code, depth, i, level, stopAtElse) ==
    LET stops == {k \in i..Len(code) :
                    /\ depth[k] = level
                    /\ \/ code[k][1] = "End"
                       \/ stopAtElse /\ code[k][1] = "Else"}
    IN  CHOOSE k \in stops : \A l \in stops : k <= l

Arity(blocktype) == IF blocktype = "I32" THEN 1 ELSE 0

Top(s) == s[Len(s)]

Pop(s, n) == SubSeq(s, 1, Len(s) - n)

Trap(m) == [m EXCEPT !.status = "trapped"]

Return(m) ==
    [m EXCEPT !.status = "returned",
              !.result = IF m.stack = <<>> THEN 0 ELSE Top(m.stack)]

\* Branch to the label n levels out; stack is the operand stack at the
\* branch.  A branch past every label leaves the function.
Branch(m, stack, n) ==
    IF n >= Len(m.labels) THEN Return([m EXCEPT !.stack = stack])
    ELSE LET l == m.labels[Len(m.labels) - n]
             results == SubSeq(stack, Len(stack) - l.arity + 1, Len(stack))
         IN  IF l.kind = "loop"
             THEN [m EXCEPT !.pc = l.cont,
                            !.labels = SubSeq(@, 1, Len(@) - n),
                            !.stack = SubSeq(stack, 1, l.height)]
             ELSE [m EXCEPT !.pc = l.cont,
                            !.labels = SubSeq(@, 1, Len(@) - n - 1),
                            !.stack = SubSeq(stack, 1, l.height) \o results]

\* One instruction of code executed; depth is Nesting(code).
Exec(m, code, depth) ==
    LET ins == code[m.pc]
        level == depth[m.pc] + 1
        op == ins[1]
        s == m.stack
        next(stack) == [m EXCEPT !.pc = @ + 1, !.stack = stack]
        label(kind, cont, height) ==
            [kind |-> kind, cont |-> cont, height |-> height,
             arity |-> IF kind = "loop" THEN 0 ELSE Arity(ins[2])]
    IN
    CASE op = "Unreachable" -> Trap(m)
      [] op = "Block" ->
            [m EXCEPT !.pc = @ + 1,
                      !.labels = Append(@, label("block",
                                     Scan(code, depth, m.pc + 1, level, FALSE) + 1,
                                     Len(s)))]
      [] op = "Loop" ->
            [m EXCEPT !.pc = @ + 1,
                      !.labels = Append(@, label("loop", m.pc + 1, Len(s)))]
      [] op = "If" ->
            LET e == Scan(code, depth, m.pc + 1, level, TRUE)
                end == IF code[e][1] = "Else"
                       THEN Scan(code, depth, e + 1, level, FALSE) ELSE e
                l == label("if", end + 1, Len(s) - 1)
            IN  IF Top(s) # 0
                THEN [m EXCEPT !.pc = @ + 1, !.stack = Pop(s, 1),
                               !.labels = Append(@, l)]
                ELSE IF code[e][1] = "Else"
                THEN [m EXCEPT !.pc = e + 1, !.stack = Pop(s, 1),
                               !.labels = Append(@, l)]
                ELSE [m EXCEPT !.pc = e + 1, !.stack = Pop(s, 1)]
      [] op = "Else" ->
            [m EXCEPT !.pc = Top(m.labels).cont, !.labels = Pop(@, 1)]
      [] op = "End" ->
            IF m.labels = <<>> THEN Return(m)
            ELSE [m EXCEPT !.pc = @ + 1, !.labels = Pop(@, 1)]
      [] op = "Br" -> Branch(m, s, ins[2])
      [] op = "BrIf" ->
            IF Top(s) # 0 THEN Branch(m, Pop(s, 1), ins[2]) ELSE next(Pop(s, 1))
      [] op = "Return" -> Return(m)
      [] op = "Drop" -> next(Pop(s, 1))
      [] op = "I32Const" -> next(Append(s, ins[2]))
      [] op = "LocalGet" -> next(Append(s, m.locals[ins[2] + 1]))
      [] op = "LocalSet" ->
            [m EXCEPT !.pc = @ + 1, !.stack = Pop(s, 1),
                      !.locals[ins[2] + 1] = Top(s)]
      [] op = "LocalTee" ->
            [m EXCEPT !.pc = @ + 1, !.locals[ins[2] + 1] = Top(s)]
      [] op = "GlobalGet" -> next(Append(s, m.globals[ins[2] + 1]))
      [] op = "GlobalSet" ->
            [m EXCEPT !.pc = @ + 1, !.stack = Pop(s, 1),
                      !.globals[ins[2] + 1] = Top(s)]
      [] op = "I32Eqz" -> next(Append(Pop(s, 1), Bool32(Top(s) = 0)))
      [] op \in BinaryOps ->
            LET a == s[Len(s) - 1]
                b == s[Len(s)]
            IN  IF BinaryTraps(op, a, b) THEN Trap(m)
                ELSE next(Append(Pop(s, 2), BinaryValue(op, a, b)))
      [] op = "I32Load" ->
            IF ~InBounds(m, Top(s), ins[2], 4) THEN Trap(m)
            ELSE next(Append(Pop(s, 1), Load32(m.mem, Top(s) + ins[2])))
      [] op = "I32Load8U" ->
            IF ~InBounds(m, Top(s), ins[2], 1) THEN Trap(m)
            ELSE next(Append(Pop(s, 1), LoadByte(m.mem, Top(s) + ins[2])))
      [] op = "I32Store" ->
            LET base == s[Len(s) - 1] IN
            IF ~InBounds(m, base, ins[2], 4) THEN Trap(m)
            ELSE [m EXCEPT !.pc = @ + 1, !.stack = Pop(s, 2),
                           !.mem = Store(@, base + ins[2], to_le_bytes(Top(s), 4))]
      [] op = "I32Store8" ->
            LET base == s[Len(s) - 1] IN
            IF ~InBounds(m, base, ins[2], 1) THEN Trap(m)
            ELSE [m EXCEPT !.pc = @ + 1, !.stack = Pop(s, 2),
                           !.mem = Store(@, base + ins[2], to_le_bytes(Top(s), 1))]

(***************************************************************************)
(* Heap layout emitters (compiler/memory.rs).  Each operator is the        *)
(* instruction sequence the Rust function of the same name appends to the  *)
(* function body; a memory immediate is written as its offset.             *)
(***************************************************************************)
HEAP_PTR_GLOBAL == 1

HEAP_LIMIT_GLOBAL == 2

TYPE_LIST == 1

TYPE_DICT == 2

TYPE_STRING == 3

\* 2166136261u32 as i32
FNV_OFFSET_BASIS == -2128831035

FNV_PRIME == 16777619

\* ListLayout::alloc without its comparison against the heap limit
ListLayout_alloc_unchecked(length) ==
    LET size == 12 + (length * 4) IN
    <<
       <<"GlobalGet", HEAP_PTR_GLOBAL>>,
       <<"I32Const", TYPE_LIST>>, <<"I32Store", 0>>,
       <<"GlobalGet", HEAP_PTR_GLOBAL>>, <<"I32Const", length>>,
       <<"I32Store", 4>>, <<"GlobalGet", HEAP_PTR_GLOBAL>>,
       <<"I32Const", length>>, <<"I32Store", 8>>,
       <<"GlobalGet", HEAP_PTR_GLOBAL>>, <<"I32Const", size>>, <<"I32Add">>,
       <<"GlobalSet", HEAP_PTR_GLOBAL>>, <<"GlobalGet", HEAP_PTR_GLOBAL>>,
       <<"I32Const", size>>, <<"I32Sub">>
    >>

ListLayout_alloc(length) ==
    LET size == 12 + (length * 4) IN
    <<
       <<"GlobalGet", HEAP_PTR_GLOBAL>>, <<"I32Const", size>>, <<"I32Add">>,
       <<"GlobalGet", HEAP_LIMIT_GLOBAL>>, <<"I32GtU">>, <<"If", "Empty">>,
       <<"Unreachable">>, <<"End">>, <<"GlobalGet", HEAP_PTR_GLOBAL>>,
       <<"I32Const", TYPE_LIST>>, <<"I32Store", 0>>,
       <<"GlobalGet", HEAP_PTR_GLOBAL>>, <<"I32Const", length>>,
       <<"I32Store", 4>>, <<"GlobalGet", HEAP_PTR_GLOBAL>>,
       <<"I32Const", length>>, <<"I32Store", 8>>,
       <<"GlobalGet", HEAP_PTR_GLOBAL>>, <<"I32Const", size>>, <<"I32Add">>,
       <<"GlobalSet", HEAP_PTR_GLOBAL>>, <<"GlobalGet", HEAP_PTR_GLOBAL>>,
       <<"I32Const", size>>, <<"I32Sub">>
    >>

ListLayout_store_element(scratch0) ==
    <<
       <<"LocalSet", scratch0>>, <<"I32Const", 4>>, <<"I32Mul">>,
       <<"I32Const", 12>>, <<"I32Add">>, <<"I32Add">>,
       <<"LocalGet", scratch0>>, <<"I32Store", 0>>
    >>

ListLayout_update_element(list_ptr, index, value) ==
    <<
       <<"LocalSet", value>>, <<"LocalSet", index>>,
       <<"LocalSet", list_ptr>>, <<"LocalGet", index>>,
       <<"LocalGet", list_ptr>>, <<"I32Load", 4>>, <<"I32GeU">>,
       <<"If", "Empty">>, <<"Unreachable">>, <<"End">>,
       <<"LocalGet", list_ptr>>, <<"LocalGet", index>>, <<"I32Const", 4>>,
       <<"I32Mul">>, <<"I32Const", 12>>, <<"I32Add">>, <<"I32Add">>,
       <<"LocalGet", value>>, <<"I32Store", 0>>
    >>

\* load_length reading the type tag word
StringLayout_load_length_tag ==
    <<
       <<"I32Load", 0>>
    >>

StringLayout_load_length ==
    <<
       <<"I32Load", 4>>
    >>

StringLayout_equals(str1, str2, len1, len2, counter) ==
    <<
       <<"LocalSet", str2>>, <<"LocalSet", str1>>, <<"LocalGet", str1>>
    >>
    \o StringLayout_load_length
    \o << <<"LocalSet", len1>>, <<"LocalGet", str2>> >>
    \o StringLayout_load_length
    \o
    <<
       <<"LocalSet", len2>>, <<"LocalGet", len1>>, <<"LocalGet", len2>>,
       <<"I32Ne">>, <<"If", "Empty">>, <<"I32Const", 0>>, <<"Return">>,
       <<"End">>, <<"I32Const", 0>>, <<"LocalSet", counter>>,
       <<"Block", "Empty">>, <<"Loop", "Empty">>, <<"LocalGet", counter>>,
       <<"LocalGet", len1>>, <<"I32GeU">>, <<"BrIf", 1>>,
       <<"LocalGet", str1>>, <<"I32Const", 8>>, <<"I32Add">>,
       <<"LocalGet", counter>>, <<"I32Add">>, <<"I32Load8U", 0>>,
       <<"LocalGet", str2>>, <<"I32Const", 8>>, <<"I32Add">>,
       <<"LocalGet", counter>>, <<"I32Add">>, <<"I32Load8U", 0>>,
       <<"I32Ne">>, <<"If", "Empty">>, <<"I32Const", 0>>, <<"Return">>,
       <<"End">>, <<"LocalGet", counter>>, <<"I32Const", 1>>, <<"I32Add">>,
       <<"LocalSet", counter>>, <<"Br", 0>>, <<"End">>, <<"End">>,
       <<"I32Const", 1>>
    >>

\* load_element comparing the index with the length as signed integers
ListLayout_load_element_signed(scratch0, scratch1) ==
    <<
       <<"LocalSet", scratch1>>, <<"LocalSet", scratch0>>,
       <<"LocalGet", scratch1>>, <<"LocalGet", scratch0>>,
       <<"I32Load", 4>>, <<"I32GeS">>, <<"If", "Empty">>,
       <<"Unreachable">>, <<"End">>, <<"LocalGet", scratch0>>,
       <<"LocalGet", scratch1>>, <<"I32Const", 4>>, <<"I32Mul">>,
       <<"I32Const", 12>>, <<"I32Add">>, <<"I32Add">>, <<"I32Load", 0>>
    >>

ListLayout_load_element(scratch0, scratch1) ==
    <<
       <<"LocalSet", scratch1>>, <<"LocalSet", scratch0>>,
       <<"LocalGet", scratch1>>, <<"LocalGet", scratch0>>,
       <<"I32Load", 4>>, <<"I32GeU">>, <<"If", "Empty">>,
       <<"Unreachable">>, <<"End">>, <<"LocalGet", scratch0>>,
       <<"LocalGet", scratch1>>, <<"I32Const", 4>>, <<"I32Mul">>,
       <<"I32Const", 12>>, <<"I32Add">>, <<"I32Add">>, <<"I32Load", 0>>
    >>

DictLayout_init_slots(capacity, dict_ptr, counter) ==
    <<
       <<"I32Const", 0>>, <<"LocalSet", counter>>, <<"Block", "Empty">>,
       <<"Loop", "Empty">>, <<"LocalGet", counter>>,
       <<"I32Const", capacity>>, <<"I32GeU">>, <<"BrIf", 1>>,
       <<"LocalGet", dict_ptr>>, <<"LocalGet", counter>>, <<"I32Const", 12>>,
       <<"I32Mul">>, <<"I32Const", 16>>, <<"I32Add">>, <<"I32Add">>,
       <<"I32Const", 0>>, <<"I32Store", 0>>, <<"LocalGet", counter>>,
       <<"I32Const", 1>>, <<"I32Add">>, <<"LocalSet", counter>>, <<"Br", 0>>,
       <<"End">>, <<"End">>
    >>

DictLayout_alloc(capacity, dict_ptr, counter) ==
    LET size == 16 + (capacity * 12) IN
    <<
       <<"GlobalGet", HEAP_PTR_GLOBAL>>, <<"I32Const", size>>, <<"I32Add">>,
       <<"GlobalGet", HEAP_LIMIT_GLOBAL>>, <<"I32GtU">>, <<"If", "Empty">>,
       <<"Unreachable">>, <<"End">>, <<"GlobalGet", HEAP_PTR_GLOBAL>>,
       <<"I32Const", TYPE_DICT>>, <<"I32Store", 0>>,
       <<"GlobalGet", HEAP_PTR_GLOBAL>>, <<"I32Const", capacity>>,
       <<"I32Store", 4>>, <<"GlobalGet", HEAP_PTR_GLOBAL>>,
       <<"I32Const", 0>>, <<"I32Store", 8>>,
       <<"GlobalGet", HEAP_PTR_GLOBAL>>, <<"I32Const", 0>>,
       <<"I32Store", 12>>, <<"GlobalGet", HEAP_PTR_GLOBAL>>,
       <<"LocalSet", dict_ptr>>
    >>
    \o
    DictLayout_init_slots(capacity, dict_ptr, counter)
    \o
    <<
       <<"GlobalGet", HEAP_PTR_GLOBAL>>, <<"I32Const", size>>, <<"I32Add">>,
       <<"GlobalSet", HEAP_PTR_GLOBAL>>, <<"GlobalGet", HEAP_PTR_GLOBAL>>,
       <<"I32Const", size>>, <<"I32Sub">>
    >>

DictLayout_fnv_hash(scratch) ==
    <<
       <<"LocalSet", scratch>>, <<"I32Const", FNV_OFFSET_BASIS>>,
       <<"LocalGet", scratch>>, <<"I32Xor">>, <<"I32Const", FNV_PRIME>>,
       <<"I32Mul">>, <<"LocalTee", scratch>>, <<"I32Eqz">>, <<"If", "I32">>,
       <<"I32Const", 1>>, <<"Else">>, <<"LocalGet", scratch>>, <<"End">>
    >>

DictLayout_insert_loop(dict_ptr, key, value, hash, capacity, index, slot_ptr, slot_hash) ==
    <<
       <<"Block", "Empty">>, <<"Loop", "Empty">>, <<"LocalGet", dict_ptr>>,
       <<"LocalGet", index>>, <<"I32Const", 12>>, <<"I32Mul">>,
       <<"I32Const", 16>>, <<"I32Add">>, <<"I32Add">>,
       <<"LocalSet", slot_ptr>>, <<"LocalGet", slot_ptr>>, <<"I32Load", 0>>,
       <<"LocalTee", slot_hash>>, <<"I32Eqz">>, <<"If", "Empty">>,
       <<"LocalGet", slot_ptr>>, <<"LocalGet", hash>>, <<"I32Store", 0>>,
       <<"LocalGet", slot_ptr>>, <<"LocalGet", key>>, <<"I32Store", 4>>,
       <<"LocalGet", slot_ptr>>, <<"LocalGet", value>>, <<"I32Store", 8>>,
       <<"LocalGet", dict_ptr>>, <<"LocalGet", dict_ptr>>, <<"I32Load", 8>>,
       <<"I32Const", 1>>, <<"I32Add">>, <<"I32Store", 8>>, <<"Br", 2>>,
       <<"End">>, <<"LocalGet", slot_ptr>>, <<"I32Load", 4>>,
       <<"LocalGet", key>>, <<"I32Eq">>, <<"If", "Empty">>,
       <<"LocalGet", slot_ptr>>, <<"LocalGet", value>>, <<"I32Store", 8>>,
       <<"Br", 2>>, <<"End">>, <<"LocalGet", index>>, <<"I32Const", 1>>,
       <<"I32Add">>, <<"LocalGet", capacity>>, <<"I32RemU">>,
       <<"LocalSet", index>>, <<"Br", 0>>, <<"End">>, <<"End">>
    >>

DictLayout_insert(dict_ptr, key, value, hash, capacity, index, slot_ptr, slot_hash) ==
    <<
       <<"LocalSet", value>>, <<"LocalSet", key>>, <<"LocalSet", dict_ptr>>,
       <<"LocalGet", key>>
    >>
    \o
    DictLayout_fnv_hash(hash)
    \o
    <<
       <<"LocalSet", hash>>, <<"LocalGet", dict_ptr>>, <<"I32Load", 4>>,
       <<"LocalSet", capacity>>, <<"LocalGet", hash>>,
       <<"LocalGet", capacity>>, <<"I32RemU">>, <<"LocalSet", index>>
    >>
    \o
    DictLayout_insert_loop(dict_ptr, key, value, hash, capacity, index, slot_ptr, slot_hash)

\* lookup giving up at the first slot that holds another key
DictLayout_lookup_first_slot(dict_ptr, key, hash, capacity, index, slot_ptr) ==
    <<
       <<"LocalSet", key>>, <<"LocalSet", dict_ptr>>, <<"LocalGet", key>>
    >>
    \o
    DictLayout_fnv_hash(hash)
    \o
    <<
       <<"LocalSet", hash>>, <<"LocalGet", dict_ptr>>, <<"I32Load", 4>>,
       <<"LocalSet", capacity>>, <<"LocalGet", hash>>,
       <<"LocalGet", capacity>>, <<"I32RemU">>, <<"LocalSet", index>>,
       <<"Block", "I32">>, <<"Loop", "Empty">>, <<"LocalGet", dict_ptr>>,
       <<"LocalGet", index>>, <<"I32Const", 12>>, <<"I32Mul">>,
       <<"I32Const", 16>>, <<"I32Add">>, <<"I32Add">>,
       <<"LocalSet", slot_ptr>>, <<"LocalGet", slot_ptr>>, <<"I32Load", 0>>,
       <<"I32Eqz">>, <<"If", "Empty">>, <<"I32Const", 0>>, <<"Br", 2>>,
       <<"End">>, <<"LocalGet", slot_ptr>>, <<"I32Load", 4>>,
       <<"LocalGet", key>>, <<"I32Eq">>, <<"If", "Empty">>,
       <<"LocalGet", slot_ptr>>, <<"I32Load", 8>>, <<"Br", 2>>, <<"End">>,
       <<"I32Const", 0>>, <<"Br", 1>>, <<"End">>, <<"End">>
    >>

DictLayout_lookup(dict_ptr, key, hash, capacity, index, slot_ptr) ==
    <<
       <<"LocalSet", key>>, <<"LocalSet", dict_ptr>>, <<"LocalGet", key>>
    >>
    \o
    DictLayout_fnv_hash(hash)
    \o
    <<
       <<"LocalSet", hash>>, <<"LocalGet", dict_ptr>>, <<"I32Load", 4>>,
       <<"LocalSet", capacity>>, <<"LocalGet", hash>>,
       <<"LocalGet", capacity>>, <<"I32RemU">>, <<"LocalSet", index>>,
       <<"Block", "I32">>, <<"Loop", "Empty">>, <<"LocalGet", dict_ptr>>,
       <<"LocalGet", index>>, <<"I32Const", 12>>, <<"I32Mul">>,
       <<"I32Const", 16>>, <<"I32Add">>, <<"I32Add">>,
       <<"LocalSet", slot_ptr>>, <<"LocalGet", slot_ptr>>, <<"I32Load", 0>>,
       <<"I32Eqz">>, <<"If", "Empty">>, <<"I32Const", 0>>, <<"Br", 2>>,
       <<"End">>, <<"LocalGet", slot_ptr>>, <<"I32Load", 4>>,
       <<"LocalGet", key>>, <<"I32Eq">>, <<"If", "Empty">>,
       <<"LocalGet", slot_ptr>>, <<"I32Load", 8>>, <<"Br", 2>>, <<"End">>,
       <<"LocalGet", index>>, <<"I32Const", 1>>, <<"I32Add">>,
       <<"LocalGet", capacity>>, <<"I32RemU">>, <<"LocalSet", index>>,
       <<"Br", 0>>, <<"End">>, <<"End">>
    >>

StringLayout_alloc(bytes) ==
    LET length == Len(bytes)
        size == 8 + Len(bytes)
        aligned_size == ((size + 3) \div 4) * 4
    IN
    <<
       <<"GlobalGet", HEAP_PTR_GLOBAL>>, <<"I32Const", aligned_size>>,
       <<"I32Add">>, <<"GlobalGet", HEAP_LIMIT_GLOBAL>>, <<"I32GtU">>,
       <<"If", "Empty">>, <<"Unreachable">>, <<"End">>,
       <<"GlobalGet", HEAP_PTR_GLOBAL>>, <<"I32Const", TYPE_STRING>>,
       <<"I32Store", 0>>, <<"GlobalGet", HEAP_PTR_GLOBAL>>,
       <<"I32Const", length>>, <<"I32Store", 4>>,
       <<"GlobalGet", HEAP_PTR_GLOBAL>>, <<"GlobalGet", HEAP_PTR_GLOBAL>>,
       <<"I32Const", aligned_size>>, <<"I32Add">>,
       <<"GlobalSet", HEAP_PTR_GLOBAL>>
    >>

StringLayout_index(str_ptr, index) ==
    <<
       <<"LocalSet", index>>, <<"LocalSet", str_ptr>>, <<"LocalGet", index>>,
       <<"LocalGet", str_ptr>>
    >>
    \o
    StringLayout_load_length
    \o
    <<
       <<"I32GeU">>, <<"If", "Empty">>, <<"Unreachable">>, <<"End">>,
       <<"LocalGet", str_ptr>>, <<"I32Const", 8>>, <<"I32Add">>,
       <<"LocalGet", index>>, <<"I32Add">>, <<"I32Load8U", 0>>
    >>

StringLayout_slice(src, start, end, len, new_ptr, counter) ==
    LET aligned_size_expr ==
        <<
           <<"LocalGet", len>>, <<"I32Const", 11>>, <<"I32Add">>,
           <<"I32Const", -4>>, <<"I32And">>
        >>
    IN
    <<
       <<"LocalSet", end>>, <<"LocalSet", start>>, <<"LocalSet", src>>,
       <<"LocalGet", src>>
    >>
    \o
    StringLayout_load_length
    \o
    <<
       <<"LocalSet", len>>, <<"LocalGet", start>>, <<"I32Const", 0>>,
       <<"I32LtS">>, <<"If", "Empty">>, <<"I32Const", 0>>,
       <<"LocalSet", start>>, <<"End">>, <<"LocalGet", start>>,
       <<"LocalGet", len>>, <<"I32GtS">>, <<"If", "Empty">>,
       <<"LocalGet", len>>, <<"LocalSet", start>>, <<"End">>,
       <<"LocalGet", end>>, <<"LocalGet", start>>, <<"I32LtS">>,
       <<"If", "Empty">>, <<"LocalGet", start>>, <<"LocalSet", end>>,
       <<"End">>, <<"LocalGet", end>>, <<"LocalGet", len>>, <<"I32GtS">>,
       <<"If", "Empty">>, <<"LocalGet", len>>, <<"LocalSet", end>>,
       <<"End">>, <<"LocalGet", end>>, <<"LocalGet", start>>, <<"I32Sub">>,
       <<"LocalSet", len>>
    >>
    \o
    <<
       <<"GlobalGet", HEAP_PTR_GLOBAL>>
    >>
    \o
    aligned_size_expr
    \o
    <<
       <<"I32Add">>, <<"GlobalGet", HEAP_LIMIT_GLOBAL>>, <<"I32GtU">>,
       <<"If", "Empty">>, <<"Unreachable">>, <<"End">>,
       <<"GlobalGet", HEAP_PTR_GLOBAL>>, <<"LocalTee", new_ptr>>,
       <<"I32Const", TYPE_STRING>>, <<"I32Store", 0>>,
       <<"LocalGet", new_ptr>>, <<"LocalGet", len>>, <<"I32Store", 4>>,
       <<"I32Const", 0>>, <<"LocalSet", counter>>, <<"Block", "Empty">>,
       <<"Loop", "Empty">>, <<"LocalGet", counter>>, <<"LocalGet", len>>,
       <<"I32GeU">>, <<"BrIf", 1>>, <<"LocalGet", new_ptr>>,
       <<"I32Const", 8>>, <<"I32Add">>, <<"LocalGet", counter>>,
       <<"I32Add">>, <<"LocalGet", src>>, <<"I32Const", 8>>, <<"I32Add">>,
       <<"LocalGet", start>>, <<"I32Add">>, <<"LocalGet", counter>>,
       <<"I32Add">>, <<"I32Load8U", 0>>, <<"I32Store8", 0>>,
       <<"LocalGet", counter>>, <<"I32Const", 1>>, <<"I32Add">>,
       <<"LocalSet", counter>>, <<"Br", 0>>, <<"End">>, <<"End">>,
       <<"GlobalGet", HEAP_PTR_GLOBAL>>
    >>
    \o
    aligned_size_expr
    \o
    <<
       <<"I32Add">>, <<"GlobalSet", HEAP_PTR_GLOBAL>>, <<"LocalGet", new_ptr>>
    >>

StringLayout_concat(str1, str2, len1, len2, new_ptr, slice_len, counter) ==
    <<
       <<"LocalSet", str2>>, <<"LocalSet", str1>>, <<"LocalGet", str1>>
    >>
    \o
    StringLayout_load_length
    \o
    <<
       <<"LocalSet", len1>>, <<"LocalGet", str2>>
    >>
    \o
    StringLayout_load_length
    \o
    <<
       <<"LocalSet", len2>>, <<"LocalGet", len1>>, <<"LocalGet", len2>>,
       <<"I32Add">>, <<"LocalSet", slice_len>>,
       <<"GlobalGet", HEAP_PTR_GLOBAL>>, <<"LocalGet", slice_len>>,
       <<"I32Const", 8>>, <<"I32Add">>, <<"I32Const", 3>>, <<"I32Add">>,
       <<"I32Const", -4>>, <<"I32And">>, <<"I32Add">>,
       <<"GlobalGet", HEAP_LIMIT_GLOBAL>>, <<"I32GtU">>, <<"If", "Empty">>,
       <<"Unreachable">>, <<"End">>, <<"GlobalGet", HEAP_PTR_GLOBAL>>,
       <<"LocalTee", new_ptr>>, <<"I32Const", TYPE_STRING>>,
       <<"I32Store", 0>>, <<"LocalGet", new_ptr>>, <<"LocalGet", slice_len>>,
       <<"I32Store", 4>>, <<"I32Const", 0>>, <<"LocalSet", counter>>,
       <<"Block", "Empty">>, <<"Loop", "Empty">>, <<"LocalGet", counter>>,
       <<"LocalGet", len1>>, <<"I32GeU">>, <<"BrIf", 1>>,
       <<"LocalGet", new_ptr>>, <<"I32Const", 8>>, <<"I32Add">>,
       <<"LocalGet", counter>>, <<"I32Add">>, <<"LocalGet", str1>>,
       <<"I32Const", 8>>, <<"I32Add">>, <<"LocalGet", counter>>,
       <<"I32Add">>, <<"I32Load8U", 0>>, <<"I32Store8", 0>>,
       <<"LocalGet", counter>>, <<"I32Const", 1>>, <<"I32Add">>,
       <<"LocalSet", counter>>, <<"Br", 0>>, <<"End">>, <<"End">>,
       <<"I32Const", 0>>, <<"LocalSet", counter>>, <<"Block", "Empty">>,
       <<"Loop", "Empty">>, <<"LocalGet", counter>>, <<"LocalGet", len2>>,
       <<"I32GeU">>, <<"BrIf", 1>>, <<"LocalGet", new_ptr>>,
       <<"I32Const", 8>>, <<"I32Add">>, <<"LocalGet", len1>>, <<"I32Add">>,
       <<"LocalGet", counter>>, <<"I32Add">>, <<"LocalGet", str2>>,
       <<"I32Const", 8>>, <<"I32Add">>, <<"LocalGet", counter>>,
       <<"I32Add">>, <<"I32Load8U", 0>>, <<"I32Store8", 0>>,
       <<"LocalGet", counter>>, <<"I32Const", 1>>, <<"I32Add">>,
       <<"LocalSet", counter>>, <<"Br", 0>>, <<"End">>, <<"End">>,
       <<"GlobalGet", HEAP_PTR_GLOBAL>>, <<"LocalGet", slice_len>>,
       <<"I32Const", 8>>, <<"I32Add">>, <<"I32Const", 3>>, <<"I32Add">>,
       <<"I32Const", -4>>, <<"I32And">>, <<"I32Add">>,
       <<"GlobalSet", HEAP_PTR_GLOBAL>>, <<"LocalGet", new_ptr>>
    >>

(***************************************************************************)
(* Code generation (compiler/codegen.rs).  An emitter returns the          *)
(* instructions it appends (code) and the value it leaves in the caller's  *)
(* next_scratch (ns).                                                      *)
(***************************************************************************)
GAS_LIMIT == 100000000

HEAP_START == 65536

HEAP_LIMIT == 4194304

gas_global == 0

Emit(code, ns) == [code |-> code, ns |-> ns]

\* meter_gas, with the order of commit and check exchanged
meter_gas_commit_first(cost, gas_temp_local) ==
    <<
       <<"GlobalGet", gas_global>>, <<"I32Const", cost>>, <<"I32Add">>,
       <<"LocalTee", gas_temp_local>>, <<"GlobalSet", gas_global>>,
       <<"LocalGet", gas_temp_local>>, <<"I32Const", GAS_LIMIT>>,
       <<"I32GtS">>, <<"If", "Empty">>, <<"Unreachable">>, <<"End">>
    >>

meter_gas(cost, gas_temp_local) ==
    <<
       <<"GlobalGet", gas_global>>, <<"I32Const", cost>>, <<"I32Add">>,
       <<"LocalTee", gas_temp_local>>, <<"I32Const", GAS_LIMIT>>,
       <<"I32GtS">>, <<"If", "Empty">>, <<"Unreachable">>, <<"End">>,
       <<"LocalGet", gas_temp_local>>, <<"GlobalSet", gas_global>>
    >>

\* the single instruction of the operators that need no dispatch
BinOpInstr(op) ==
    CASE op = "Div" -> <<"I32DivS">>
      [] op = "Sub" -> <<"I32Sub">>
      [] op = "Mul" -> <<"I32Mul">>
      [] op = "Ne"  -> <<"I32Ne">>
      [] op = "Lt"  -> <<"I32LtS">>
      [] op = "Le"  -> <<"I32LeS">>
      [] op = "Gt"  -> <<"I32GtS">>
      [] op = "Ge"  -> <<"I32GeS">>

\* BinOp::FloorDiv on the two operands on the stack; scratch0 is
\* ir_func.locals.len()
FloorDivCode(scratch0) ==
    LET scratch1 == scratch0 + 1
        scratch2 == scratch0 + 2
    IN  << <<"LocalSet", scratch1>>, <<"LocalSet", scratch0>>,
           <<"LocalGet", scratch1>>, <<"I32Eqz">>, <<"If", "Empty">>,
           <<"Unreachable">>, <<"End">>,
           <<"LocalGet", scratch0>>, <<"LocalGet", scratch1>>, <<"I32DivS">>,
           <<"LocalSet", scratch2>>,
           <<"LocalGet", scratch0>>, <<"LocalGet", scratch1>>, <<"I32RemS">>,
           <<"LocalTee", scratch0>>, <<"I32Const", 0>>, <<"I32Ne">>,
           <<"LocalGet", scratch0>>, <<"LocalGet", scratch1>>, <<"I32Xor">>,
           <<"I32Const", 0>>, <<"I32LtS">>,
           <<"I32And">>, <<"If", "Empty">>,
           <<"LocalGet", scratch2>>, <<"I32Const", 1>>, <<"I32Sub">>,
           <<"LocalSet", scratch2>>, <<"End">>,
           <<"LocalGet", scratch2>> >>

\* the remainder of i32.rem_s left as it is
ModCode_truncated(scratch0) ==
    << <<"LocalSet", scratch0 + 1>>, <<"LocalSet", scratch0>>,
       <<"LocalGet", scratch0 + 1>>, <<"I32Eqz">>, <<"If", "Empty">>,
       <<"Unreachable">>, <<"End">>,
       <<"LocalGet", scratch0>>, <<"LocalGet", scratch0 + 1>>, <<"I32RemS">> >>

\* BinOp::Mod on the two operands on the stack
ModCode(scratch0) ==
    LET scratch1 == scratch0 + 1
        scratch2 == scratch0 + 2
    IN  << <<"LocalSet", scratch1>>, <<"LocalSet", scratch0>>,
           <<"LocalGet", scratch1>>, <<"I32Eqz">>, <<"If", "Empty">>,
           <<"Unreachable">>, <<"End">>,
           <<"LocalGet", scratch0>>, <<"LocalGet", scratch1>>, <<"I32RemS">>,
           <<"LocalTee", scratch2>>,
           <<"I32Eqz">>, <<"If", "I32">>, <<"I32Const", 0>>, <<"Else">>,
           <<"LocalGet", scratch2>>, <<"LocalGet", scratch1>>, <<"I32Xor">>,
           <<"I32Const", 0>>, <<"I32LtS">>,
           <<"If", "I32">>,
           <<"LocalGet", scratch2>>, <<"LocalGet", scratch1>>, <<"I32Add">>,
           <<"Else">>, <<"LocalGet", scratch2>>, <<"End">>,
           <<"End">> >>

\* the instructions of a binary operator other than Add and Eq, after its
\* operands
BinOpCode(op, ir_func) ==
    CASE op = "FloorDiv" -> FloorDivCode(Len(ir_func.locals))
      [] op = "Mod" -> ModCode(Len(ir_func.locals))
      [] OTHER -> <<BinOpInstr(op)>>

\* the byte stores of a string literal, from byte i on
RECURSIVE StrByteStores(_, _, _)
StrByteStores(bytes, i, base) ==
    IF i > Len(bytes) THEN <<>>
    ELSE << <<"LocalGet", base>>, <<"I32Const", 8 + (i - 1)>>, <<"I32Add">>,
            <<"I32Const", bytes[i]>>, <<"I32Store8", 0>> >>
         \o StrByteStores(bytes, i + 1, base)

\* a table with as many slots as half the pairs of the literal
dict_capacity_half(pairs) == (Len(pairs) + 1) \div 2

\* the slots of the table of a dict literal
dict_capacity(pairs) == IF Len(pairs) * 2 > 8 THEN Len(pairs) * 2 ELSE 8

RECURSIVE generate_expr(_, _, _, _)
RECURSIVE ListElements(_, _, _, _, _, _, _)
RECURSIVE DictPairs(_, _, _, _, _, _)

generate_expr(expr, ir_func, gas_temp_local, next_scratch) ==
    CASE expr.k = "Const" ->
            Emit(<< <<"I32Const", expr.val>> >>, next_scratch)
      [] expr.k = "LoadLocal" ->
            Emit(<< <<"LocalGet", ir_func.local_map[expr.var]>> >>, next_scratch)
      [] expr.k = "UnaryOp" ->
            Let(generate_expr(expr.operand, ir_func, gas_temp_local, next_scratch),
                LAMBDA o :
                IF expr.op = "Neg"
                THEN Emit(<< <<"I32Const", 0>> >> \o o.code \o << <<"I32Sub">> >>, o.ns)
                ELSE Emit(o.code \o << <<"I32Eqz">> >>, o.ns))
      [] expr.k = "BinOp" /\ expr.op = "Add" ->
            LET saved_scratch == next_scratch
                left_local == next_scratch
                right_local == left_local + 1
            IN  Let(generate_expr(expr.left, ir_func, gas_temp_local, right_local + 1),
                    LAMBDA l :
                Let(generate_expr(expr.right, ir_func, gas_temp_local, l.ns),
                    LAMBDA r :
                LET base == r.ns IN
                Emit(l.code \o << <<"LocalSet", left_local>> >>
                     \o r.code \o << <<"LocalSet", right_local>> >>
                     \o << <<"LocalGet", left_local>>, <<"I32Const", 1024>>,
                           <<"I32GeU">>, <<"LocalGet", left_local>>,
                           <<"I32Load", 0>>, <<"I32Const", 3>>, <<"I32Eq">>,
                           <<"I32And">>, <<"If", "I32">>,
                           <<"LocalGet", left_local>>, <<"LocalGet", right_local>> >>
                     \o StringLayout_concat(base, base + 1, base + 2, base + 3,
                                            base + 4, base + 5, base + 6)
                     \o << <<"Else">>, <<"LocalGet", left_local>>,
                           <<"LocalGet", right_local>>, <<"I32Add">>, <<"End">> >>,
                     saved_scratch)))
      [] expr.k = "BinOp" /\ expr.op = "Eq" ->
            LET saved_scratch == next_scratch
                left_local == next_scratch
                right_local == left_local + 1
            IN  Let(generate_expr(expr.left, ir_func, gas_temp_local, right_local + 1),
                    LAMBDA l :
                Let(generate_expr(expr.right, ir_func, gas_temp_local, l.ns),
                    LAMBDA r :
                LET base == r.ns IN
                Emit(l.code \o << <<"LocalSet", left_local>> >>
                     \o r.code \o << <<"LocalSet", right_local>> >>
                     \o << <<"LocalGet", left_local>>, <<"I32Const", 1024>>,
                           <<"I32GeU">>, <<"LocalGet", left_local>>,
                           <<"I32Load", 0>>, <<"I32Const", 3>>, <<"I32Eq">>,
                           <<"I32And">>, <<"If", "I32">>,
                           <<"LocalGet", left_local>>, <<"LocalGet", right_local>> >>
                     \o StringLayout_equals(base, base + 1, base + 2, base + 3, base + 4)
                     \o << <<"Else">>, <<"LocalGet", left_local>>,
                           <<"LocalGet", right_local>>, <<"I32Eq">>, <<"End">> >>,
                     saved_scratch)))
      [] expr.k = "BinOp" /\ expr.op \notin {"Add", "Eq"} ->
            Let(generate_expr(expr.left, ir_func, gas_temp_local, next_scratch),
                LAMBDA l :
            Let(generate_expr(expr.right, ir_func, gas_temp_local, l.ns),
                LAMBDA r :
                Emit(l.code \o r.code \o BinOpCode(expr.op, ir_func), r.ns)))
      [] expr.k = "Subscript" ->
            LET saved_scratch == next_scratch
                value_local == next_scratch
                index_local == value_local + 1
            IN  Let(generate_expr(expr.value, ir_func, gas_temp_local, index_local + 1),
                    LAMBDA v :
                Let(generate_expr(expr.index, ir_func, gas_temp_local, v.ns),
                    LAMBDA i :
                LET str_base == i.ns
                    list_base == i.ns
                IN
                Emit(v.code \o << <<"LocalSet", value_local>> >>
                     \o i.code \o << <<"LocalSet", index_local>> >>
                     \o << <<"LocalGet", value_local>>, <<"I32Const", 1024>>,
                           <<"I32GeU">>, <<"LocalGet", value_local>>,
                           <<"I32Load", 0>>, <<"I32Const", 3>>, <<"I32Eq">>,
                           <<"I32And">>, <<"If", "I32">>,
                           <<"LocalGet", value_local>>, <<"LocalGet", index_local>> >>
                     \o StringLayout_index(str_base, str_base + 1)
                     \o << <<"Else">>, <<"LocalGet", value_local>>,
                           <<"LocalGet", index_local>> >>
                     \o ListLayout_load_element(list_base, list_base + 1)
                     \o << <<"End">> >>,
                     saved_scratch)))
      [] expr.k = "List" ->
            LET length == Len(expr.elements)
                scratch0 == next_scratch
                scratch1 == scratch0 + 1
            IN  Let(ListElements(expr.elements, 1, ir_func, gas_temp_local,
                                 scratch1 + 1, scratch0, scratch1),
                    LAMBDA es :
                Emit(ListLayout_alloc(length) \o << <<"LocalSet", scratch0>> >>
                     \o es.code \o << <<"LocalGet", scratch0>> >>, es.ns))
      [] expr.k = "Dict" ->
            LET capacity == dict_capacity(expr.pairs)
                base == next_scratch
            IN  Let(DictPairs(expr.pairs, 1, ir_func, gas_temp_local, base + 8, base),
                    LAMBDA ps :
                Emit(DictLayout_alloc(capacity, base, base + 1)
                     \o << <<"LocalSet", base>> >>
                     \o ps.code \o << <<"LocalGet", base>> >>, ps.ns))
      [] expr.k = "Str" ->
            LET base == next_scratch
            IN  Emit(StringLayout_alloc(expr.bytes) \o << <<"LocalSet", base>> >>
                     \o StrByteStores(expr.bytes, 1, base)
                     \o << <<"LocalGet", base>> >>, base + 1)
      [] expr.k = "Slice" ->
            LET str_local == next_scratch IN
            Let(generate_expr(expr.value, ir_func, gas_temp_local, str_local + 1),
                LAMBDA v :
            Let(IF expr.start.k # "None"
                THEN generate_expr(expr.start, ir_func, gas_temp_local, v.ns)
                ELSE Emit(<< <<"I32Const", 0>> >>, v.ns),
                LAMBDA s :
            Let(IF expr.end.k # "None"
                THEN generate_expr(expr.end, ir_func, gas_temp_local, s.ns)
                ELSE Emit(<< <<"LocalGet", str_local>> >> \o StringLayout_load_length,
                          s.ns),
                LAMBDA e :
                LET start_local == e.ns
                    end_local == start_local + 1
                    base == end_local + 1
                IN  Emit(v.code \o << <<"LocalSet", str_local>> >> \o s.code \o e.code
                         \o << <<"LocalSet", end_local>>, <<"LocalSet", start_local>>,
                               <<"LocalGet", str_local>>, <<"LocalGet", start_local>>,
                               <<"LocalGet", end_local>> >>
                         \o StringLayout_slice(base, base + 1, base + 2, base + 3,
                                               base + 4, base + 5),
                         base + 6))))

\* the element stores of a list literal, from element i on
ListElements(elements, i, ir_func, gas_temp_local, next_scratch, scratch0, scratch1) ==
    IF i > Len(elements) THEN Emit(<<>>, next_scratch)
    ELSE Let(generate_expr(elements[i], ir_func, gas_temp_local, next_scratch),
             LAMBDA e :
         Let(ListElements(elements, i + 1, ir_func, gas_temp_local, e.ns,
                          scratch0, scratch1),
             LAMBDA rest :
             Emit(<< <<"LocalGet", scratch0>>, <<"I32Const", i - 1>> >> \o e.code
                  \o ListLayout_store_element(scratch1) \o rest.code, rest.ns)))

\* the inserts of a dict literal, from pair i on
DictPairs(pairs, i, ir_func, gas_temp_local, next_scratch, base) ==
    IF i > Len(pairs) THEN Emit(<<>>, next_scratch)
    ELSE Let(generate_expr(pairs[i][1], ir_func, gas_temp_local, next_scratch),
             LAMBDA k :
         Let(generate_expr(pairs[i][2], ir_func, gas_temp_local, k.ns),
             LAMBDA v :
         Let(DictPairs(pairs, i + 1, ir_func, gas_temp_local, v.ns, base),
             LAMBDA rest :
             Emit(<< <<"LocalGet", base>> >> \o k.code \o v.code
                  \o DictLayout_insert(base, base + 1, base + 2, base + 3,
                                       base + 4, base + 5, base + 6, base + 7)
                  \o rest.code, rest.ns))))

RECURSIVE generate_stmt_with_scratch(_, _, _, _)
RECURSIVE StmtsThreaded(_, _, _, _, _)
RECURSIVE StmtsFrom(_, _, _, _, _)

generate_stmt_with_scratch(stmt, ir_func, gas_temp_local, next_scratch) ==
    CASE stmt.k = "Assign" ->
            Let(generate_expr(stmt.value, ir_func, gas_temp_local, next_scratch),
                LAMBDA v :
                Emit(v.code \o << <<"LocalSet", ir_func.local_map[stmt.var]>> >>, v.ns))
      [] stmt.k = "SubscriptAssign" ->
            Let(generate_expr(stmt.target, ir_func, gas_temp_local, next_scratch),
                LAMBDA t :
            Let(generate_expr(stmt.index, ir_func, gas_temp_local, t.ns),
                LAMBDA i :
            Let(generate_expr(stmt.value, ir_func, gas_temp_local, i.ns),
                LAMBDA v :
                LET base == v.ns IN
                Emit(t.code \o i.code \o v.code
                     \o << <<"LocalSet", base + 2>>, <<"LocalSet", base + 1>>,
                           <<"LocalSet", base>>, <<"LocalGet", base>>,
                           <<"I32Load", 0>>, <<"I32Const", 1>>, <<"I32Eq">>,
                           <<"If", "Empty">>, <<"LocalGet", base>>,
                           <<"LocalGet", base + 1>>, <<"LocalGet", base + 2>> >>
                     \o ListLayout_update_element(base + 3, base + 4, base + 5)
                     \o << <<"Else">>, <<"LocalGet", base>>,
                           <<"LocalGet", base + 1>>, <<"LocalGet", base + 2>> >>
                     \o DictLayout_insert(base + 3, base + 4, base + 5, base + 6,
                                          base + 7, base + 8, base + 9, base + 10)
                     \o << <<"End">> >>,
                     base + 11))))
      [] stmt.k = "Return" ->
            Let(generate_expr(stmt.value, ir_func, gas_temp_local, next_scratch),
                LAMBDA v : Emit(v.code \o << <<"Return">> >>, v.ns))
      [] stmt.k = "If" ->
            Let(generate_expr(stmt.cond, ir_func, gas_temp_local, next_scratch),
                LAMBDA c :
            Let(StmtsThreaded(stmt.then_block, 1, ir_func, gas_temp_local, c.ns),
                LAMBDA t :
                IF stmt.else_block # <<>>
                THEN Let(StmtsThreaded(stmt.else_block, 1, ir_func, gas_temp_local, t.ns),
                         LAMBDA e :
                         Emit(c.code \o << <<"If", "Empty">> >> \o t.code
                              \o << <<"Else">> >> \o e.code \o << <<"End">> >>, e.ns))
                ELSE Emit(c.code \o << <<"If", "Empty">> >> \o t.code
                          \o << <<"End">> >>, t.ns)))
      [] stmt.k = "While" ->
            Let(generate_expr(stmt.cond, ir_func, gas_temp_local, next_scratch),
                LAMBDA c :
            Let(StmtsThreaded(stmt.body, 1, ir_func, gas_temp_local, c.ns),
                LAMBDA b :
                Emit(<< <<"Block", "Empty">>, <<"Loop", "Empty">> >>
                     \o meter_gas(1, gas_temp_local)
                     \o c.code \o << <<"I32Eqz">>, <<"BrIf", 1>> >>
                     \o b.code
                     \o << <<"Br", 0>>, <<"End">>, <<"End">> >>, b.ns)))
      [] stmt.k = "For" ->
            LET loop_var == ir_func.local_map[stmt.var]
                counter == next_scratch
                body_scratch_base == counter + 1
                it == generate_expr(stmt.iter, ir_func, gas_temp_local, body_scratch_base)
                b == StmtsFrom(stmt.body, 1, ir_func, gas_temp_local, body_scratch_base)
            IN  Emit(<< <<"I32Const", 0>>, <<"LocalSet", counter>>,
                        <<"Block", "Empty">>, <<"Loop", "Empty">> >>
                     \o meter_gas(1, gas_temp_local)
                     \o << <<"LocalGet", counter>> >> \o it.code
                     \o << <<"I32GeS">>, <<"BrIf", 1>>, <<"LocalGet", counter>>,
                           <<"LocalSet", loop_var>> >>
                     \o b
                     \o << <<"LocalGet", counter>>, <<"I32Const", 1>>, <<"I32Add">>,
                           <<"LocalSet", counter>>, <<"Br", 0>>, <<"End">>,
                           <<"End">> >>,
                     next_scratch)
      [] stmt.k = "Expr" ->
            Let(generate_expr(stmt.value, ir_func, gas_temp_local, next_scratch),
                LAMBDA v : Emit(v.code \o << <<"Drop">> >>, v.ns))
      [] stmt.k = "Block" ->
            StmtsThreaded(stmt.stmts, 1, ir_func, gas_temp_local, next_scratch)

\* statements i.. of a block, next_scratch carried from each to the next
StmtsThreaded(stmts, i, ir_func, gas_temp_local, next_scratch) ==
    IF i > Len(stmts) THEN Emit(<<>>, next_scratch)
    ELSE Let(generate_stmt_with_scratch(stmts[i], ir_func, gas_temp_local,
                                        next_scratch),
             LAMBDA s :
         Let(StmtsThreaded(stmts, i + 1, ir_func, gas_temp_local, s.ns),
             LAMBDA rest : Emit(s.code \o rest.code, rest.ns)))

\* statements i.. of a body, each starting again from the same scratch base
StmtsFrom(stmts, i, ir_func, gas_temp_local, scratch_base) ==
    IF i > Len(stmts) THEN <<>>
    ELSE generate_stmt_with_scratch(stmts[i], ir_func, gas_temp_local,
                                    scratch_base).code
         \o StmtsFrom(stmts, i + 1, ir_func, gas_temp_local, scratch_base)

OUTPUT == <<79, 85, 84, 80, 85, 84>>

\* The body of the emitted function and the number of locals it declares.
generate_function(func) ==
    LET param_count == Len(func.params)
        additional_locals == Len(func.locals) - param_count + func.temp_locals
        gas_temp_local == Len(func.locals) + func.temp_locals - 1
        base_scratch == Len(func.locals)
        tail == IF func.name = "main"
                THEN IF OUTPUT \in DOMAIN func.local_map
                     THEN << <<"LocalGet", func.local_map[OUTPUT]>> >>
                     ELSE << <<"I32Const", 0>> >>
                ELSE << <<"I32Const", 0>> >>
    IN  [additional_locals |-> additional_locals,
         code |-> meter_gas(10, gas_temp_local)
                  \o StmtsFrom(func.body, 1, func, gas_temp_local, base_scratch)
                  \o tail \o << <<"End">> >>]

(***************************************************************************)
(* The binary form of an emitted module: what wasm_encoder writes for the  *)
(* sections and instructions WasmCodegen::generate hands it.               *)
(***************************************************************************)
RECURSIVE uleb128(_)
uleb128(n) ==
    IF n < 128 THEN <<n>> ELSE <<(n % 128) + 128>> \o uleb128(n \div 128)

RECURSIVE sleb128(_)
sleb128(n) ==
    LET byte == n % 128
        rest == n \div 128
    IN  IF (rest = 0 /\ byte < 64) \/ (rest = -1 /\ byte >= 64) THEN <<byte>>
        ELSE <<byte + 128>> \o sleb128(rest)

Opcode ==
    [Unreachable |-> 0, Block |-> 2, Loop |-> 3, If |-> 4, Else |-> 5, End |-> 11,
     Br |-> 12, BrIf |-> 13, Return |-> 15, Drop |-> 26,
     LocalGet |-> 32, LocalSet |-> 33, LocalTee |-> 34, GlobalGet |-> 35,
     GlobalSet |-> 36, I32Load |-> 40, I32Load8U |-> 45, I32Store |-> 54,
     I32Store8 |-> 58, I32Const |-> 65, I32Eqz |-> 69, I32Eq |-> 70, I32Ne |-> 71,
     I32LtS |-> 72, I32LtU |-> 73, I32GtS |-> 74, I32GtU |-> 75, I32LeS |-> 76,
     I32LeU |-> 77, I32GeS |-> 78, I32GeU |-> 79, I32Add |-> 106, I32Sub |-> 107,
     I32Mul |-> 108, I32DivS |-> 109, I32DivU |-> 110, I32RemS |-> 111,
     I32RemU |-> 112, I32And |-> 113, I32Or |-> 114, I32Xor |-> 115]

\* the bytes of one instruction; every 32-bit access is emitted with
\* align 2 and every 8-bit access with align 0
EncodeInstr(ins) ==
    LET op == ins[1] IN
    <<Opcode[op]>> \o
    (CASE op \in {"Block", "Loop", "If"} -> IF ins[2] = "I32" THEN <<127>> ELSE <<64>>
       [] op \in {"Br", "BrIf", "LocalGet", "LocalSet", "LocalTee",
                  "GlobalGet", "GlobalSet"} -> uleb128(ins[2])
       [] op = "I32Const" -> sleb128(ins[2])
       [] op \in {"I32Load", "I32Store"} -> <<2>> \o uleb128(ins[2])
       [] op \in {"I32Load8U", "I32Store8"} -> <<0>> \o uleb128(ins[2])
       [] OTHER -> <<>>)

\* the bytes of instructions lo..hi of code
RECURSIVE EncodeCode(_, _, _)
EncodeCode(code, lo, hi) ==
    IF lo > hi THEN <<>>
    ELSE IF lo = hi THEN EncodeInstr(code[lo])
    ELSE LET mid == (lo + hi) \div 2
         IN  EncodeCode(code, lo, mid) \o EncodeCode(code, mid + 1, hi)

EncodeName(bytes) == uleb128(Len(bytes)) \o bytes

Section(id, contents) == <<id>> \o uleb128(Len(contents)) \o contents

EncodeGlobal(mutable, value) ==
    <<127, IF mutable THEN 1 ELSE 0, Opcode.I32Const>> \o sleb128(value) \o <<Opcode.End>>

\* WasmCodegen::generate for a module whose only function is main
generate(ir) ==
    Let(generate_function(ir.functions[1]), LAMBDA f :
    LET types == <<1, 96, 0, 1, 127>>
        imports == <<1>> \o EncodeName(<<101, 110, 118>>)
                        \o EncodeName(<<109, 101, 109, 111, 114, 121>>)
                        \o <<2, 1>> \o uleb128(16) \o uleb128(256)
        funcs == <<1, 0>>
        globals == <<3>> \o EncodeGlobal(TRUE, 0) \o EncodeGlobal(TRUE, HEAP_START)
                        \o EncodeGlobal(FALSE, HEAP_LIMIT)
        exports == <<2>> \o EncodeName(<<109, 97, 105, 110>>) \o <<0, 0>>
                        \o EncodeName(<<109, 101, 109, 111, 114, 121>>) \o <<2, 0>>
    IN  Let((IF f.additional_locals > 0
             THEN <<1>> \o uleb128(f.additional_locals) \o <<127>>
             ELSE <<0>>)
            \o EncodeCode(f.code, 1, Len(f.code)),
            LAMBDA body :
        WasmMagic \o WasmVersion
        \o Section(1, types) \o Section(2, imports) \o Section(3, funcs)
        \o Section(6, globals) \o Section(7, exports)
        \o Section(10, <<1>> \o uleb128(Len(body)) \o body)))

(***************************************************************************)
(* Lowering (compiler/lowering.rs).  A source is the AST rustpython        *)
(* parses it to, names held as their bytes.  self.current_locals and       *)
(* self.defined_functions are the key sets of the two BTreeMaps; lowering  *)
(* returns the IR with the IRLowering it leaves, or the error.             *)
(***************************************************************************)
MAX_LOCALS == 256

SCRATCH_LOCALS == 32

Bail(msg) == [ok |-> FALSE, err |-> msg]

Lowered(self, ir) == [ok |-> TRUE, self |-> self, ir |-> ir]

IRLowering_new == [current_locals |-> {}, defined_functions |-> {}]

WithLocal(self, name) == [self EXCEPT !.current_locals = @ \cup {name}]

\* byte order of two names, the order of BTreeMap<String, _>
RECURSIVE LexLt(_, _)
LexLt(a, b) ==
    IF a = <<>> THEN b # <<>>
    ELSE IF b = <<>> THEN FALSE
    ELSE IF a[1] # b[1] THEN a[1] < b[1]
    ELSE LexLt(Tail(a), Tail(b))

\* the keys of a BTreeMap in iteration order: each name at the position
\* that is the number of names before it
keys(names) ==
    Let([n \in names |-> 1 + Cardinality({o \in names : LexLt(o, n)})], LAMBDA place :
        [i \in 1..Cardinality(names) |-> CHOOSE n \in names : place[n] = i])

RECURSIVE lower_expr(_, _)
RECURSIVE LowerAll(_, _, _)

\* lower_expr over the expressions i.. of a list, collecting their IR
LowerAll(self, exprs, i) ==
    IF i > Len(exprs) THEN Lowered(self, <<>>)
    ELSE Let(lower_expr(self, exprs[i]), LAMBDA e :
         IF ~e.ok THEN e
         ELSE Let(LowerAll(e.self, exprs, i + 1), LAMBDA rest :
              IF ~rest.ok THEN rest
              ELSE Lowered(rest.self, <<e.ir>> \o rest.ir)))

lower_expr(self, expr) ==
    CASE expr.k = "Constant" ->
            (CASE expr.kind = "Int" ->
                    IF expr.value.big THEN Bail("Integer too large")
                    ELSE Lowered(self, [k |-> "Const", val |-> expr.value.v])
               [] expr.kind = "Float" -> Bail("Float literals not allowed")
               [] expr.kind = "Bool" ->
                    Lowered(self,
                            [k |-> "Const", val |-> IF expr.value THEN 1 ELSE 0])
               [] expr.kind = "None" -> Lowered(self, [k |-> "Const", val |-> 0])
               [] expr.kind = "Str" -> Bail("String literals require runtime support")
               [] OTHER -> Bail("Unsupported constant type"))
      [] expr.k = "Name" ->
            Lowered(WithLocal(self, expr.id), [k |-> "LoadLocal", var |-> expr.id])
      [] expr.k = "BinOp" ->
            Let(LowerAll(self, <<expr.left, expr.right>>, 1), LAMBDA both :
            IF ~both.ok THEN both
            ELSE IF expr.op \notin {"Add", "Sub", "Mult", "Div", "FloorDiv", "Mod"}
            THEN Bail("Unsupported binary operator")
            ELSE Lowered(both.self,
                         [k |-> "BinOp",
                          op |-> IF expr.op = "Mult" THEN "Mul" ELSE expr.op,
                          left |-> both.ir[1], right |-> both.ir[2]]))
      [] expr.k = "Compare" ->
            IF Len(expr.ops) # 1 \/ Len(expr.comparators) # 1
            THEN Bail("Chained comparisons not supported")
            ELSE LET op == CASE expr.ops[1] = "Eq" -> "Eq"
                             [] expr.ops[1] = "NotEq" -> "Ne"
                             [] expr.ops[1] = "Lt" -> "Lt"
                             [] expr.ops[1] = "LtE" -> "Le"
                             [] expr.ops[1] = "Gt" -> "Gt"
                             [] expr.ops[1] = "GtE" -> "Ge"
                             [] OTHER -> "unsupported"
                 IN  Let(LowerAll(self, <<expr.left, expr.comparators[1]>>, 1),
                         LAMBDA both :
                     IF ~both.ok THEN both
                     ELSE IF op = "unsupported"
                     THEN Bail("Unsupported comparison operator")
                     ELSE Lowered(both.self, [k |-> "BinOp", op |-> op,
                                            left |-> both.ir[1], right |-> both.ir[2]]))
      [] expr.k = "UnaryOp" ->
            Let(lower_expr(self, expr.operand), LAMBDA o :
            IF ~o.ok THEN o
            ELSE IF expr.op \notin {"USub", "Not"} THEN Bail("Unsupported unary operator")
            ELSE Lowered(o.self, [k |-> "UnaryOp",
                                op |-> IF expr.op = "USub" THEN "Neg" ELSE "Not",
                                operand |-> o.ir]))
      [] expr.k = "Call" ->
            IF expr.func.k # "Name" THEN Bail("Only simple function calls supported")
            ELSE IF expr.func.id = <<114, 97, 110, 103, 101>>
            THEN Bail("range() must be used only in for loops")
            ELSE IF expr.func.id \notin self.defined_functions
            THEN Bail("Function not defined")
            ELSE Let(LowerAll(self, expr.args, 1), LAMBDA as :
                 IF ~as.ok THEN as
                 ELSE Lowered(as.self, [k |-> "Call", func |-> expr.func.id,
                                        args |-> as.ir]))
      [] expr.k = "List" ->
            Let(LowerAll(self, expr.elts, 1), LAMBDA es :
            IF ~es.ok THEN es ELSE Lowered(es.self, [k |-> "List", elements |-> es.ir]))
      [] expr.k = "Dict" ->
            IF Len(expr.keys) # Len(expr.values)
            THEN Bail("Dict keys/values length mismatch")
            ELSE LET interleaved == [i \in 1..(2 * Len(expr.keys)) |->
                                        IF i % 2 = 1 THEN expr.keys[(i + 1) \div 2]
                                        ELSE expr.values[i \div 2]]
                 IN  Let(LowerAll(self, interleaved, 1), LAMBDA kv :
                     IF ~kv.ok THEN kv
                     ELSE Lowered(kv.self,
                                  [k |-> "Dict",
                                   pairs |-> [i \in 1..Len(expr.keys) |->
                                                 <<kv.ir[2 * i - 1], kv.ir[2 * i]>>]]))
      [] expr.k = "Subscript" ->
            Let(LowerAll(self, <<expr.value, expr.slice>>, 1), LAMBDA both :
            IF ~both.ok THEN both
            ELSE Lowered(both.self, [k |-> "Subscript", value |-> both.ir[1],
                                     index |-> both.ir[2]]))
      [] expr.k = "Attribute" -> Bail("Attribute access requires runtime support")
      [] OTHER -> Bail("Unsupported expression type")

RECURSIVE lower_stmt(_, _)
RECURSIVE LowerRange(_, _, _, _)
RECURSIVE TupleAssigns(_, _, _, _)

\* lower_stmt over the statements lo..hi of a block in their order, the
\* first half before the second
LowerRange(self, stmts, lo, hi) ==
    IF lo > hi THEN Lowered(self, <<>>)
    ELSE IF lo = hi
    THEN Let(lower_stmt(self, stmts[lo]), LAMBDA s :
         IF ~s.ok THEN s ELSE Lowered(s.self, <<s.ir>>))
    ELSE Let(LowerRange(self, stmts, lo, (lo + hi) \div 2), LAMBDA first :
         IF ~first.ok THEN first
         ELSE Let(LowerRange(first.self, stmts, (lo + hi) \div 2 + 1, hi), LAMBDA rest :
              IF ~rest.ok THEN rest
              ELSE Lowered(rest.self, first.ir \o rest.ir)))

\* lower_stmt over the statements i.. of a block
LowerStmts(self, stmts, i) == LowerRange(self, stmts, i, Len(stmts))

\* the assignments of a tuple unpacking, from position i on
TupleAssigns(self, targets, values, i) ==
    IF i > Len(targets) THEN Lowered(self, <<>>)
    ELSE IF targets[i].k # "Name" THEN Bail("Tuple unpacking target must be variable")
    ELSE Let(lower_expr(WithLocal(self, targets[i].id), values[i]), LAMBDA v :
         IF ~v.ok THEN v
         ELSE Let(TupleAssigns(v.self, targets, values, i + 1), LAMBDA rest :
              IF ~rest.ok THEN rest
              ELSE Lowered(rest.self,
                           <<[k |-> "Assign", var |-> targets[i].id, value |-> v.ir]>>
                               \o rest.ir)))

lower_stmt(self, stmt) ==
    CASE stmt.k = "Assign" ->
            IF Len(stmt.targets) # 1 THEN Bail("Multiple assignment not supported")
            ELSE IF stmt.targets[1].k = "Tuple"
            THEN IF stmt.value.k # "Tuple" THEN Bail("Tuple unpacking requires tuple value")
                 ELSE IF Len(stmt.targets[1].elts) # Len(stmt.value.elts)
                 THEN Bail("Tuple unpacking size mismatch")
                 ELSE Let(TupleAssigns(self, stmt.targets[1].elts, stmt.value.elts, 1),
                          LAMBDA ss :
                          IF ~ss.ok THEN ss
                          ELSE Lowered(ss.self, [k |-> "Block", stmts |-> ss.ir]))
            ELSE IF stmt.targets[1].k # "Name"
            THEN Bail("Only simple variable assignment supported")
            ELSE LET var_name == stmt.targets[1].id
                 IN  Let(lower_expr(WithLocal(self, var_name), stmt.value), LAMBDA v :
                     IF ~v.ok THEN v
                     ELSE Lowered(v.self, [k |-> "Assign", var |-> var_name,
                                           value |-> v.ir]))
      [] stmt.k = "Return" ->
            IF stmt.value.k = "None"
            THEN Lowered(self, [k |-> "Return", value |-> [k |-> "Const", val |-> 0]])
            ELSE Let(lower_expr(self, stmt.value), LAMBDA v :
                 IF ~v.ok THEN v ELSE Lowered(v.self, [k |-> "Return", value |-> v.ir]))
      [] stmt.k = "If" ->
            Let(lower_expr(self, stmt.test), LAMBDA c :
            IF ~c.ok THEN c
            ELSE Let(LowerStmts(c.self, stmt.body, 1), LAMBDA t :
                 IF ~t.ok THEN t
                 ELSE Let(LowerStmts(t.self, stmt.orelse, 1), LAMBDA e :
                      IF ~e.ok THEN e
                      ELSE Lowered(e.self, [k |-> "If", cond |-> c.ir,
                                            then_block |-> t.ir, else_block |-> e.ir]))))
      [] stmt.k = "While" ->
            Let(lower_expr(self, stmt.test), LAMBDA c :
            IF ~c.ok THEN c
            ELSE Let(LowerStmts(c.self, stmt.body, 1), LAMBDA b :
                 IF ~b.ok THEN b
                 ELSE Lowered(b.self, [k |-> "While", cond |-> c.ir, body |-> b.ir])))
      [] stmt.k = "For" ->
            IF stmt.target.k # "Name" THEN Bail("For loop target must be simple variable")
            ELSE IF stmt.iter.k # "Call" THEN Bail("For loop iter must be range(n)")
            ELSE IF stmt.iter.func.k # "Name" THEN Bail("For loop iter must be range()")
            ELSE IF stmt.iter.func.id # <<114, 97, 110, 103, 101>>
            THEN Bail("For loop iter must be range()")
            ELSE IF Len(stmt.iter.args) # 1 THEN Bail("Only range(n) supported")
            ELSE Let(lower_expr(WithLocal(self, stmt.target.id), stmt.iter.args[1]),
                     LAMBDA it :
                     IF ~it.ok THEN it
                     ELSE Let(LowerStmts(it.self, stmt.body, 1), LAMBDA b :
                          IF ~b.ok THEN b
                          ELSE Lowered(b.self, [k |-> "For", var |-> stmt.target.id,
                                                iter |-> it.ir, body |-> b.ir])))
      [] stmt.k = "Expr" ->
            Let(lower_expr(self, stmt.value), LAMBDA v :
            IF ~v.ok THEN v ELSE Lowered(v.self, [k |-> "Expr", value |-> v.ir]))
      [] stmt.k \in {"Import", "ImportFrom"} ->
            Lowered(self, [k |-> "Block", stmts |-> <<>>])
      [] OTHER -> Bail("Unsupported statement type")

\* a limit that lets one local too many through
too_many_locals_late(count, temp_count) == count + temp_count > MAX_LOCALS + 1

\* locals.len() + temp_count > MAX_LOCALS
too_many_locals(count, temp_count) == count + temp_count > MAX_LOCALS

\* every key of current_locals, the parameters among them
other_locals_unfiltered(current_locals, params) == keys(current_locals)

\* the keys of current_locals that are no parameter, sorted
other_locals(current_locals, params) == keys(current_locals \ Range(params))

\* locals.iter().enumerate() collected into a HashMap: the last index of a
\* name is the one the map keeps
LocalMap(locals) ==
    [n \in Range(locals) |->
        (CHOOSE i \in DOMAIN locals :
            locals[i] = n /\ \A j \in DOMAIN locals : locals[j] = n => j <= i) - 1]

\* lower_function of a compiler whose SCRATCH_LOCALS is temp_count
lower_function(self, func, temp_count) ==
    Let(LowerStmts([self EXCEPT !.current_locals = Range(func.args)], func.body, 1),
        LAMBDA body :
    IF ~body.ok THEN body
    ELSE Let(func.args \o other_locals(body.self.current_locals, func.args),
             LAMBDA fn_locals :
         IF too_many_locals(Len(fn_locals), temp_count)
         THEN Bail("Function has too many locals")
         ELSE Lowered([body.self EXCEPT !.current_locals = self.current_locals],
                      [name |-> func.name, params |-> func.args, locals |-> fn_locals,
                       local_map |-> LocalMap(fn_locals), temp_locals |-> temp_count,
                       body |-> body.ir])))

\* the second loop of lower_module over the statements lo..hi of the
\* module in their order, the first half before the second: the functions
\* lowered and the statements of main
RECURSIVE LowerBody(_, _, _, _, _)
LowerBody(self, body, lo, hi, temp_count) ==
    IF lo > hi THEN Lowered(self, [functions |-> <<>>, main_body |-> <<>>])
    ELSE IF lo = hi
    THEN IF body[lo].k = "FunctionDef"
         THEN Let(lower_function(self, body[lo], temp_count), LAMBDA f :
              IF ~f.ok THEN f
              ELSE Lowered(f.self, [functions |-> <<f.ir>>, main_body |-> <<>>]))
         ELSE Let(lower_stmt(self, body[lo]), LAMBDA s :
              IF ~s.ok THEN s
              ELSE Lowered(s.self, [functions |-> <<>>, main_body |-> <<s.ir>>]))
    ELSE Let(LowerBody(self, body, lo, (lo + hi) \div 2, temp_count), LAMBDA first :
         IF ~first.ok THEN first
         ELSE Let(LowerBody(first.self, body, (lo + hi) \div 2 + 1, hi, temp_count),
                  LAMBDA rest :
              IF ~rest.ok THEN rest
              ELSE Lowered(rest.self,
                           [functions |-> first.ir.functions \o rest.ir.functions,
                            main_body |-> first.ir.main_body \o rest.ir.main_body])))

\* lower_module of a compiler whose SCRATCH_LOCALS is temp_count: the
\* functions of the IR module, main first
lower_module_with(self, body, temp_count) ==
    Let(LowerBody([self EXCEPT !.defined_functions =
                       @ \cup {body[i].name : i \in {j \in DOMAIN body :
                                                        body[j].k = "FunctionDef"}}],
                  body, 1, Len(body), temp_count), LAMBDA lowered :
    IF ~lowered.ok THEN lowered
    ELSE Let(keys(lowered.self.current_locals), LAMBDA main_locals :
         IF too_many_locals(Len(main_locals), temp_count)
         THEN Bail("Too many locals")
         ELSE Lowered(lowered.self,
                      [functions |->
                          <<[name |-> "main", params |-> <<>>, locals |-> main_locals,
                             local_map |-> LocalMap(main_locals),
                             temp_locals |-> temp_count,
                             body |-> lowered.ir.main_body]>>
                              \o lowered.ir.functions])))

\* lower_module of compiler/lowering.rs
lower_module(self, body) == lower_module_with(self, body, SCRATCH_LOCALS)

(***************************************************************************)
(* Sources of the run specification, as the AST of their module body.      *)
(***************************************************************************)
IntLit(n) == [k |-> "Constant", kind |-> "Int", value |-> [big |-> FALSE, v |-> n]]

True == [k |-> "Constant", kind |-> "Bool", value |-> TRUE]

Name(id) == [k |-> "Name", id |-> id]

AssignStmt(target, value) == [k |-> "Assign", targets |-> <<target>>, value |-> value]

WhileStmt(test, body) == [k |-> "While", test |-> test, body |-> body]

\* for target in range(n): body
ForRange(target, n, body) ==
    [k |-> "For", target |-> target,
     iter |-> [k |-> "Call", func |-> Name(<<114, 97, 110, 103, 101>>), args |-> <<n>>],
     body |-> body]

BinOpExpr(op, left, right) == [k |-> "BinOp", op |-> op, left |-> left, right |-> right]

ListExpr(elts) == [k |-> "List", elts |-> elts]

DictExpr(ks, vs) == [k |-> "Dict", keys |-> ks, values |-> vs]

SubscriptExpr(value, slice) == [k |-> "Subscript", value |-> value, slice |-> slice]

N_a == <<97>>

N_d == <<100>>

N_i == <<105>>

N_p == <<112>>

N_t == <<116>>

N_x == <<120>>

\* The address of element 0 of a list literal that is the first allocation.
FirstListElements == HEAP_START + 12

Sources ==
    << \* 1: OUTPUT = 1
       << AssignStmt(Name(OUTPUT), IntLit(1)) >>,
       \* 2: while True: x = 1
       << WhileStmt(True, << AssignStmt(Name(N_x), IntLit(1)) >>) >>,
       \* 3: for i in range(3): x = i * 2
       << ForRange(Name(N_i), IntLit(3),
                   << AssignStmt(Name(N_x), BinOpExpr("Mult", Name(N_i), IntLit(2))) >>) >>,
       \* 4: while True: x = [0]
       << WhileStmt(True, << AssignStmt(Name(N_x), ListExpr(<<IntLit(0)>>)) >>) >>,
       \* 5: while True: d = {1: 2, 3: 4}
       << WhileStmt(True, << AssignStmt(Name(N_d),
                                        DictExpr(<<IntLit(1), IntLit(3)>>,
                                                 <<IntLit(2), IntLit(4)>>)) >>) >>,
       \* 6: a = [3, 1, 97]; p = 65548; while True: t = p + p
       \*    the elements of a read as the string "a" at address p
       << AssignStmt(Name(N_a), ListExpr(<<IntLit(TYPE_STRING), IntLit(1), IntLit(97)>>)),
          AssignStmt(Name(N_p), IntLit(FirstListElements)),
          WhileStmt(True, << AssignStmt(Name(N_t), BinOpExpr("Add", Name(N_p), Name(N_p))) >>) >>,
       \* 7: d = {}; for i in range(9): d[i] = i
       << AssignStmt(Name(N_d), DictExpr(<<>>, <<>>)),
          ForRange(Name(N_i), IntLit(9),
                   << AssignStmt(SubscriptExpr(Name(N_d), Name(N_i)), Name(N_i)) >>) >>,
       \* 8: x = 1.5
       << AssignStmt(Name(N_x), [k |-> "Constant", kind |-> "Float"]) >>
    >>

(***************************************************************************)
(* Bounds of the interpreter specification.                                *)
(***************************************************************************)
MaxFuel == 2

MaxPushes == 2

\* Opcodes the specification feeds to execute_opcode; 26 (drop) stands for
\* the opcodes the interpreter does not implement.
Opcodes == {0, 1, 26, 32, 34, 65, 66, 69, 106, 109, 110, 111, 112, 127, 128, 129, 130}

PushValues == {I32(1), I32(INT_MAX), I32(INT_MIN), I64(0), I64(-3)}

LocalValues == {I32(0), I64(0)}

VARIABLES
    \* the interpreter under SpecInterp
    stack, locals, memory, pc, fuel, lastCall, executed, pushes, fuel0,
    \* the executor contract under SpecExec
    execution_count, execution_results, lastExec,
    \* the instance of an emitted module under SpecRun
    vm,
    \* the compilers under SpecCompile
    caches, lastCompile,
    \* the module handed to lower_module under SpecLower, and its result
    lowering,
    \* the source handed to validate_python under SpecValidate, and the verdict
    validation,
    \* the byte string handed to both validators under SpecAgree, and the verdicts
    verdict,
    \* the source handed to the compiler under SpecLocals, and the locals of main
    emitted,
    \* the two interpreter states serialized under SpecHash, and their bytes
    hashed,
    \* the sled database and the channel of the job queue under SpecQueue
    queue,
    \* the executor node and the escrow contract it talks to under SpecNode
    node

interpVars == <<stack, locals, memory, pc, fuel, lastCall, executed, pushes, fuel0>>

execVars == <<execution_count, execution_results, lastExec>>

runVars == <<vm>>

compileVars == <<caches, lastCompile, lowering>>

serviceVars == <<validation, verdict, emitted, hashed, queue, node>>

vars == <<interpVars, execVars, runVars, compileVars, serviceVars>>

NotInterp == <<execVars, runVars, compileVars, serviceVars>>

\* The contract as deployed, before any call.
ExecIdle ==
    /\ execution_count = 0
    /\ execution_results = <<>>
    /\ lastExec = [called |-> FALSE]

\* No module instantiated.
RunIdle == vm = [status |-> "none"]

\* No source validated.
ServiceIdle ==
    /\ validation = [called |-> FALSE]
    /\ verdict = [called |-> FALSE]
    /\ emitted = [called |-> FALSE]
    /\ hashed = [called |-> FALSE]
    /\ queue = [called |-> FALSE]
    /\ node = [called |-> FALSE]

\* No compiler constructed.
CompileIdle ==
    /\ caches = <<>>
    /\ lastCompile = [called |-> FALSE]
    /\ lowering = [called |-> FALSE]

Self == [stack |-> stack, locals |-> locals, memory |-> memory,
         pc |-> pc, fuel |-> fuel]

SetSelf(s) ==
    /\ stack' = s.stack
    /\ locals' = s.locals
    /\ memory' = s.memory
    /\ pc' = s.pc
    /\ fuel' = s.fuel

\* A fresh interpreter, or one whose stack a caller has already filled with
\* zeros to one below the limit through push.
InitInterp ==
    /\ ExecIdle
    /\ ServiceIdle
    /\ RunIdle
    /\ CompileIdle
    /\ \E f \in 0..MaxFuel, d \in {0, MAX_STACK_DEPTH - 1} :
          /\ stack = [zeros |-> d, top |-> <<>>]
          /\ fuel = f
          /\ fuel0 = f
    /\ locals = <<>>
    /\ memory = [len |-> 65536]
    /\ pc = 0
    /\ lastCall = [op |-> "new", arg |-> 0, res |-> "Ok"]
    /\ executed = 0
    /\ pushes = 0

Push ==
    \E v \in PushValues :
       /\ pushes < MaxPushes
       /\ LET r == push(Self, v) IN
          /\ SetSelf(r.st)
          /\ lastCall' = [op |-> "push", arg |-> 0, res |-> r.res]
       /\ pushes' = pushes + 1
       /\ UNCHANGED <<executed, fuel0, NotInterp>>

\* locals.push by the caller.  Every local access uses index 0 (read_leb128
\* yields 0), so one local is all the interpreter can ever touch.
LocalsPush ==
    \E v \in LocalValues :
       /\ locals = <<>>
       /\ locals' = Append(locals, v)
       /\ lastCall' = [op |-> "locals.push", arg |-> 0, res |-> "Ok"]
       /\ UNCHANGED <<stack, memory, pc, fuel, executed, pushes, fuel0, NotInterp>>

ExecuteOpcode ==
    \E opcode \in Opcodes :
       LET r == execute_opcode(Self, opcode) IN
       /\ SetSelf(r.st)
       /\ lastCall' = [op |-> "execute_opcode", arg |-> opcode, res |-> r.res]
       /\ executed' = IF r.res = "out of fuel" THEN executed ELSE executed + 1
       /\ UNCHANGED <<pushes, fuel0, NotInterp>>

NextInterp == Push \/ LocalsPush \/ ExecuteOpcode

SpecInterp == InitInterp /\ [][NextInterp]_vars

(***************************************************************************)
(* Properties of the state interpreter.                                    *)
(***************************************************************************)
ExecStep == lastCall'.op = "execute_opcode"

\* C6: every executed opcode costs exactly one unit of fuel; an opcode
\* requested with no fuel left is refused with "out of fuel" and changes
\* nothing; the opcodes executed and the fuel left always add up to the
\* starting fuel, so at most that many execute; fuel never goes below zero.
C6_FuelAccounting ==
    /\ [](fuel >= 0 /\ executed + fuel = fuel0 /\ executed <= fuel0)
    /\ [][ExecStep =>
            IF fuel = 0
              THEN /\ lastCall'.res = "out of fuel"
                   /\ UNCHANGED <<stack, locals, memory, pc, fuel, executed>>
              ELSE /\ lastCall'.res # "out of fuel"
                   /\ fuel' = fuel - 1
                   /\ executed' = executed + 1]_vars

\* A run that spent all of a starting fuel of at least two and then had a
\* further opcode refused.
C6_Witness ==
    /\ lastCall.op = "execute_opcode"
    /\ lastCall.res = "out of fuel"
    /\ fuel0 >= 2
    /\ executed = fuel0

\* The steps that attempt a push: the push call itself, and the opcodes whose
\* arm pushes without popping first (i32.const, i64.const, and local.get
\* once local 0 exists), when they have fuel to run.
PushAttempt ==
    \/ lastCall'.op = "push"
    \/ /\ ExecStep
       /\ fuel > 0
       /\ \/ lastCall'.arg \in {65, 66}
          \/ lastCall'.arg = 32 /\ locals # <<>>

\* C10: the value stack never holds more than 1024 values, and a push
\* attempted at depth 1024 returns "stack overflow" and leaves the stack as
\* it was.
C10_StackBound ==
    /\ [](Depth(stack) <= MAX_STACK_DEPTH)
    /\ [][(PushAttempt /\ Depth(stack) = MAX_STACK_DEPTH) =>
            (lastCall'.res = "stack overflow" /\ stack' = stack)]_vars

\* A full stack on which a push has just been refused.
C10_Witness ==
    /\ Depth(stack) = MAX_STACK_DEPTH
    /\ lastCall.res = "stack overflow"

\* the division and remainder opcodes, signed and unsigned
DivOpcodes32 == {109, 110, 111, 112}

DivOpcodes64 == {127, 128, 129, 130}

\* the divisor on top of the stack is the zero of the opcode's type
ZeroDivisor(opcode) ==
    /\ Depth(stack) >= 1
    /\ VecPop(stack).val = (IF opcode \in DivOpcodes32 THEN I32(0) ELSE I64(0))

\* the value under the top of the stack has the type of the opcode
DividendTyped(opcode) ==
    /\ Depth(stack) >= 2
    /\ VecPop(VecPop(stack).stk).val.t
          = (IF opcode \in DivOpcodes32 THEN "I32" ELSE "I64")

\* C11: a division or remainder opcode, i32 or i64, signed or unsigned,
\* executed with a zero divisor on top of the stack returns an error
\* whatever lies under the divisor - "integer divide by zero" when a
\* dividend of the opcode's type does - and pushes nothing: the stack is
\* left as it was with the operands the arm popped removed.
C11_DivideByZero ==
    [][(/\ ExecStep
        /\ fuel > 0
        /\ lastCall'.arg \in DivOpcodes32 \cup DivOpcodes64
        /\ ZeroDivisor(lastCall'.arg))
       => /\ lastCall'.res # "Ok"
          /\ IF DividendTyped(lastCall'.arg)
             THEN /\ lastCall'.res = "integer divide by zero"
                  /\ stack' = VecPop(VecPop(stack).stk).stk
             ELSE \/ stack' = VecPop(stack).stk
                  \/ Depth(stack) >= 2 /\ stack' = VecPop(VecPop(stack).stk).stk]_vars

\* an unsigned i32 remainder refused for its zero divisor: the stack began
\* empty, the one value pushed (none of the i32 values pushed is 0) was its
\* dividend, and the stack is empty again
C11_Witness ==
    /\ lastCall.op = "execute_opcode"
    /\ lastCall.arg = 112
    /\ lastCall.res = "integer divide by zero"
    /\ pushes = 1
    /\ Depth(stack) = 0

(***************************************************************************)
(* The executor contract: calls of execute.                                *)
(***************************************************************************)
MaxExecutions == 2

Pad(n) == [i \in 1..n |-> 0]

\* The modules offered to execute, and what each one is there for.
ModuleTable ==
    << WasmMagic \o WasmVersion \o <<0>>,              \* the empty module
       WasmMagic \o WasmVersion \o <<65, 0, 26>>,       \* i32.const 0; drop
       WasmMagic \o WasmVersion \o <<67>>,             \* f32.const
       WasmMagic \o WasmVersion \o <<0, 191>>,          \* last byte of the range
       WasmMagic \o WasmVersion \o WasiPattern,
       WasmMagic \o WasmVersion \o <<0, 254>>,          \* atomics prefix
       WasmMagic \o WasmVersion \o Pad(MAX_MODULE_SIZE - 7),
       <<0, 97, 115>>,
       <<255, 97, 115, 109>> \o WasmVersion \o <<0>>,
       WasmMagic \o <<2, 0, 0, 0>> \o <<0>> >>

Modules == {ModuleTable[i] : i \in DOMAIN ModuleTable}

\* input = [opcode] followed by initial_state
Inputs == { <<>>, <<1>>, <<1, 7>>, <<65, 7>>, <<106>> }

FuelLimits == {0, 2}

MemLimits == {65535, 65536}

\* Width in bytes of usize where the interpreter is built: wasm32 for the
\* Stylus contract, a 64-bit host for the off-chain party.
Targets == {4, 8}

\* No interpreter in use.
InterpIdle ==
    /\ stack = EmptyStack
    /\ locals = <<>>
    /\ memory = [len |-> 0]
    /\ pc = 0
    /\ fuel = 0
    /\ fuel0 = 0
    /\ lastCall = [op |-> "new", arg |-> 0, res |-> "Ok"]
    /\ executed = 0
    /\ pushes = 0

InitExec ==
    /\ ExecIdle
    /\ ServiceIdle
    /\ RunIdle
    /\ CompileIdle
    /\ InterpIdle

Execute ==
    \E m \in DOMAIN ModuleTable, input \in Inputs, fuel_limit \in FuelLimits,
       mem_limit \in MemLimits, usize_bytes \in Targets :
       LET wasm == ModuleTable[m] IN
       /\ execution_count < MaxExecutions
       /\ execution_count' = execution_count + 1
       /\ LET r == execute(wasm, input, fuel_limit, mem_limit, usize_bytes) IN
          /\ execution_results' =
                IF r.ok
                  THEN (compute_execution_id(wasm, input) :> compute_sha256(r.out))
                       @@ execution_results
                  ELSE execution_results
          /\ lastExec' = [called |-> TRUE, module |-> m, input |-> input,
                          fuel_limit |-> fuel_limit, mem_limit |-> mem_limit,
                          usize_bytes |-> usize_bytes, result |-> r]
       /\ UNCHANGED <<interpVars, runVars, compileVars, serviceVars>>

NextExec == Execute

SpecExec == InitExec /\ [][NextExec]_vars

(***************************************************************************)
(* Properties of the executor contract.                                    *)
(***************************************************************************)
\* What module validation is to reject: a byte of the float range or the
\* byte 0xFE after the 8-byte header, the text wasi_snapshot, or a length
\* above 24 KiB.
Forbidden(wasm) ==
    \/ Len(wasm) > 24 * 1024
    \/ \E i \in 9..Len(wasm) : wasm[i] \in 67..191 \/ wasm[i] = 254
    \/ \E i \in 1..Len(wasm) :
          /\ i + Len(WasiPattern) - 1 <= Len(wasm)
          /\ \A k \in 1..Len(WasiPattern) : wasm[i + k - 1] = WasiPattern[k]

\* The call passed the size check and validate_determinism: it returned a
\* hash, or failed only in execute_wasm.
Accepted(result) == result.ok \/ result.err \in {"ExecutionFailed", "OutOfFuel"}

RECURSIVE PriorStack(_)
PriorStack(initial_state) ==
    IF initial_state = <<>> THEN EmptyStack
    ELSE VecPush(PriorStack(SubSeq(initial_state, 1, Len(initial_state) - 1)),
                 I32(initial_state[Len(initial_state)]))

PriorState(initial_state, memory_size, fuel_limit) ==
    [New(memory_size, fuel_limit) EXCEPT !.stack = PriorStack(initial_state)]

\* C4: for an input (opcode, initial_state) that reaches the interpreter,
\* the result is the canonical hash of the state that executing the opcode
\* on the prior state encoded in initial_state leaves, or the failure of
\* that execution.
C4_HashOfPriorState ==
    (lastExec.called /\ lastExec.input # <<>>
       /\ (lastExec.result.ok \/ lastExec.result.err = "ExecutionFailed")) =>
        LET prior == PriorState(Tail(lastExec.input), lastExec.mem_limit,
                                lastExec.fuel_limit)
            r == execute_opcode(prior, lastExec.input[1])
        IN lastExec.result =
             IF r.res = "Ok"
               THEN Ok(compute_state_hash(r.st, lastExec.usize_bytes))
               ELSE Err("ExecutionFailed")

\* C5: the interpreter is pure: a call with the same module, input, fuel
\* limit and memory limit as the call before it gives the same hash or the
\* same error, whatever machine runs it.
C5_Pure ==
    [][(lastExec.called
          /\ lastExec'.module = lastExec.module
          /\ lastExec'.input = lastExec.input
          /\ lastExec'.fuel_limit = lastExec.fuel_limit
          /\ lastExec'.mem_limit = lastExec.mem_limit)
        => lastExec'.result = lastExec.result]_vars

(***************************************************************************)
(* The run specification: one instance of an emitted module, its exported  *)
(* main executed one instruction at a time.                                *)
(***************************************************************************)
IRFunction(names, body) ==
    [name |-> "main", params |-> <<>>, locals |-> names,
     local_map |-> [n \in {names[j] : j \in DOMAIN names} |->
                       (CHOOSE j \in DOMAIN names : names[j] = n) - 1],
     temp_locals |-> SCRATCH_LOCALS, body |-> body]

WhileTrue(body) == [k |-> "While", cond |-> [k |-> "Const", val |-> 1], body |-> body]

N_s == <<115>>

\* IR the code generator takes though lower_expr returns none of it: a
\* string literal and a slice.
\*   1: while True: s = "a"
\*   2: s = "ab"; while True: t = s[0:1]
DirectIR ==
    << IRFunction(<<N_s>>,
          << WhileTrue(<< [k |-> "Assign", var |-> N_s,
                           value |-> [k |-> "Str", bytes |-> <<97>>]] >>) >>),
       IRFunction(<<N_s, N_t>>,
          << [k |-> "Assign", var |-> N_s, value |-> [k |-> "Str", bytes |-> <<97, 98>>]],
             WhileTrue(<< [k |-> "Assign", var |-> N_t,
                           value |-> [k |-> "Slice",
                                      value |-> [k |-> "LoadLocal", var |-> N_s],
                                      start |-> [k |-> "Const", val |-> 0],
                                      end |-> [k |-> "Const", val |-> 1]]] >>) >>) >>

Programs == 1..(Len(Sources) + Len(DirectIR))

\* The function each program compiles to, or the rejection of its source.
Functions ==
    Explicit([n \in Programs |->
        Let(IF n > Len(Sources)
            THEN Lowered(IRLowering_new,
                         [functions |-> <<DirectIR[n - Len(Sources)]>>])
            ELSE lower_module(IRLowering_new, Sources[n]),
            LAMBDA l :
            IF l.ok THEN [ok |-> TRUE, func |-> generate_function(l.ir.functions[1])]
            ELSE [ok |-> FALSE, func |-> [additional_locals |-> 0, code |-> <<>>]])])

\* the first instruction of the body of the first loop, 0 if there is none
LoopHead(code) ==
    IF \E j \in DOMAIN code : code[j][1] = "Loop"
    THEN 1 + CHOOSE j \in DOMAIN code :
                 code[j][1] = "Loop" /\ \A l \in 1..(j - 1) : code[l][1] # "Loop"
    ELSE 0

\* programs whose source is a while True loop
Unbounded == {2, 4, 5, 6, 9, 10}

\* the pages of the memory the instance imports: env.memory as the module
\* declares it, minimum 16 and maximum 256
Pages == {16, 256}

\* The instance as instantiated, main about to start: the code of main
\* with the nesting depth of its instructions and its loop head, the
\* locals, globals and memory.  iter counts the completed iterations of the
\* first loop.
Fresh(n, pages) ==
    Let(Functions[n], LAMBDA f :
    [prog |-> n, pages |-> pages,
     code |-> f.func.code, nesting |-> Nesting(f.func.code),
     head |-> LoopHead(f.func.code),
     pc |-> 1, stack |-> <<>>,
     locals |-> [j \in 1..f.func.additional_locals |-> 0],
     labels |-> <<>>,
     globals |-> <<0, HEAP_START, HEAP_LIMIT>>,
     mem |-> [over |-> <<>>, lo |-> 0, hi |-> 0, pat |-> <<0>>],
     status |-> IF f.ok THEN "running" ELSE "rejected",
     result |-> 0, iter |-> 0, entry |-> 0])

StepVM(m) ==
    Let(Exec(m, m.code, m.nesting), LAMBDA m2 :
    [m2 EXCEPT !.iter = IF /\ m.code[m.pc][1] = "Br"
                           /\ m2.status = "running"
                           /\ m2.pc = m.head
                        THEN @ + 1 ELSE @])

\* the instance has stopped, or is at the loop head with j iterations completed
Arrived(m, j) == m.status # "running" \/ (m.pc = m.head /\ m.iter = j)

HeadSteps == 11

\* 2^e instructions executed, or fewer when the instance arrives earlier
RECURSIVE RunPow(_, _, _)
RunPow(m, j, e) ==
    IF Arrived(m, j) THEN m
    ELSE IF e = 0 THEN StepVM(m)
    ELSE Let(RunPow(m, j, e - 1), LAMBDA mid : RunPow(mid, j, e - 1))

\* the instance when it reaches the loop head with j iterations completed
AtHead(m, j) == Let(m, LAMBDA start : RunPow(start, j, HeadSteps))

\* the instance at the loop head with j, j + 1, .. 2 iterations completed
RECURSIVE HeadsFrom(_, _)
HeadsFrom(m, j) ==
    IF j > 2 THEN <<>>
    ELSE Let(AtHead(m, j), LAMBDA s : <<s>> \o HeadsFrom(s, j + 1))

\* the instance fresh at the loop head with 0, 1 and 2 iterations completed
Heads(fresh) == HeadsFrom(fresh, 0)

\* The instance at the loop head after j >= 2 iterations of a loop whose
\* iterations each add the same amounts to the globals and locals and write
\* the same bytes at the heap pointer: iteration 2 repeated j - 2 more times.
\* heads are the instances at the loop head after 0, 1 and 2 iterations.
Accelerated(heads, j) ==
    LET s0 == heads[1]
        s1 == heads[2]
        s2 == heads[3]
        h0 == s0.globals[HEAP_PTR_GLOBAL + 1]
        dh == s1.globals[HEAP_PTR_GLOBAL + 1] - h0
        repeated(v1, v2) == v2 + (j - 2) * (v2 - v1)
    IN  [s2 EXCEPT !.iter = j, !.entry = j,
                   !.globals = [g \in DOMAIN @ |-> repeated(s1.globals[g], @[g])],
                   !.locals = [l \in DOMAIN @ |-> repeated(s1.locals[l], @[l])],
                   !.mem = [over |-> s0.mem.over, lo |-> h0, hi |-> h0 + j * dh,
                            pat |-> IF dh = 0 THEN <<0>>
                                    ELSE [b \in 1..dh |-> LoadByte(s1.mem, h0 + b - 1)]]]

\* The iteration counts at which an unbounded loop is entered: the last
\* ones before the gas limit, the heap limit or the end of the memory ends
\* it.
LastIterations(heads) ==
    LET s0 == heads[1]
        s1 == heads[2]
        pages == s0.pages
        dg == s1.globals[gas_global + 1] - s0.globals[gas_global + 1]
        dh == s1.globals[HEAP_PTR_GLOBAL + 1] - s0.globals[HEAP_PTR_GLOBAL + 1]
        last == IF dh = 0 THEN (GAS_LIMIT - s0.globals[gas_global + 1]) \div dg
                ELSE LET top == IF pages * PAGE_SIZE < HEAP_LIMIT
                                    THEN pages * PAGE_SIZE ELSE HEAP_LIMIT
                     IN  (top - s0.globals[HEAP_PTR_GLOBAL + 1]) \div dh
    IN  IF s1.status = "running" /\ Arrived(s1, 1) /\ (dh > 0 \/ dg > 0)
        THEN (last - 2) .. last
        ELSE {}

MaxIterations == 2

InitRun ==
    /\ ExecIdle
    /\ ServiceIdle
    /\ InterpIdle
    /\ CompileIdle
    /\ \E n \in Programs, pages \in Pages :
       \E fresh \in {Fresh(n, pages)} :
          \/ vm = fresh
          \/ /\ n \in Unbounded
             /\ \E heads \in {Heads(fresh)} :
                \E j \in LastIterations(heads) :
                \E a \in {Accelerated(heads, j)} :
                   /\ a.mem.hi <= pages * PAGE_SIZE
                   /\ vm = a

\* An unbounded loop entered from the start is followed for MaxIterations
\* iterations.
Followed(m) == ~(m.prog \in Unbounded /\ m.entry = 0 /\ m.iter >= MaxIterations)

Step ==
    /\ vm.status = "running"
    /\ Followed(vm)
    /\ vm' = StepVM(vm)
    /\ UNCHANGED <<interpVars, execVars, compileVars, serviceVars>>

NextRun == Step

SpecRun == InitRun /\ [][NextRun]_vars

SpecRunFair == SpecRun /\ WF_vars(Step)


\* A run entered at the loop head agrees, one iteration later, with the
\* instance computed for one iteration more.
AcceleratedRunsAgree ==
    (/\ vm.status = "running"
     /\ vm.prog \in Unbounded
     /\ vm.entry > 0
     /\ vm.iter = vm.entry + 1
     /\ vm.pc = vm.head)
    => \A a \in {Accelerated(Heads(Fresh(vm.prog, vm.pages)), vm.iter)} :
       /\ vm.globals = a.globals
       /\ vm.locals = a.locals
       /\ vm.stack = a.stack
       /\ vm.labels = a.labels
       /\ \A x \in (a.mem.hi - Len(a.mem.pat)) .. (a.mem.hi - 1) :
             LoadByte(vm.mem, x) = LoadByte(a.mem, x)

\* A run from the start agrees with the computed instance when it has
\* completed its second iteration.
FreshRunsAgree ==
    (/\ vm.status = "running"
     /\ vm.prog \in Unbounded
     /\ vm.entry = 0
     /\ vm.iter = 2
     /\ vm.pc = vm.head)
    => \A a \in {Accelerated(Heads(Fresh(vm.prog, vm.pages)), 2)} :
       /\ vm.globals = a.globals
       /\ vm.locals = a.locals
       /\ vm.stack = a.stack
       /\ vm.labels = a.labels
       /\ \A x \in HEAP_START .. (a.mem.hi + 3) :
             LoadByte(vm.mem, x) = LoadByte(a.mem, x)

(***************************************************************************)
(* Claims about the execution of an emitted module.                        *)
(***************************************************************************)
Started == vm.status \in {"running", "returned", "trapped"}

\* main about to execute its first instruction
AtEntry == vm.status = "running" /\ vm.pc = 1 /\ vm.entry = 0

Gas(m) == m.globals[gas_global + 1]

Heap(m) == m.globals[HEAP_PTR_GLOBAL + 1]

\* the instruction the instance stopped at or executes next
Current == vm.code[vm.pc]

\* the instruction k places before the current one
Before(k) == vm.code[vm.pc - k]

\* C8: during a run of an emitted module the gas global is 0 at entry,
\* stays between 0 and GAS_LIMIT, no instruction lowers it, and a trap
\* leaves it as it was: the tick that would pass the limit is not committed.
C8_GasWithinLimit ==
    /\ [](Started => /\ 0 <= Gas(vm) /\ Gas(vm) <= GAS_LIMIT
                      /\ (AtEntry => Gas(vm) = 0))
    /\ [][Started => /\ Gas(vm') >= Gas(vm)
                      /\ (vm'.status = "trapped" => Gas(vm') = Gas(vm))]_vars

\* a gas tick trapped: the total it computed passes the limit, the global
\* holds the limit
C8_Witness ==
    /\ vm.status = "trapped"
    /\ Current = <<"Unreachable">>
    /\ Before(2) = <<"I32GtS">>
    /\ vm.locals[Len(vm.locals)] > GAS_LIMIT
    /\ Gas(vm) = GAS_LIMIT

\* C9: during a run of an emitted module the heap pointer is HEAP_START at
\* entry, stays between HEAP_START and HEAP_LIMIT, no instruction lowers
\* it, and a trap leaves it as it was: the allocation whose end would pass
\* the limit does not advance it.
C9_HeapWithinLimit ==
    /\ [](Started => /\ HEAP_START <= Heap(vm) /\ Heap(vm) <= HEAP_LIMIT
                      /\ (AtEntry => Heap(vm) = HEAP_START))
    /\ [][Started => /\ Heap(vm') >= Heap(vm)
                      /\ (vm'.status = "trapped" => Heap(vm') = Heap(vm))]_vars

\* the heap check of an allocator trapped
HeapTrap ==
    /\ vm.status = "trapped"
    /\ Current = <<"Unreachable">>
    /\ Before(2) = <<"I32GtU">>
    /\ Before(3) = <<"GlobalGet", HEAP_LIMIT_GLOBAL>>

\* the concatenation of program 6 trapped at its heap check: the 12 bytes
\* of its result would end past the limit
C9_Witness == HeapTrap /\ vm.prog = 6 /\ Heap(vm) + 12 > HEAP_LIMIT

MAX_PYTHON_SIZE == 102400

\* The texts handed to compile and what rustpython's parser makes of them:
\* the body of the module, or a parse error.
\*   1: OUTPUT = 1       2: OUTPUT = 2       3: for i in range(3): x = i * 2
\*   4: d = {}; for i in range(9): d[i] = i       5: x = (
\*   6: a comment of MAX_PYTHON_SIZE + 1 bytes
Texts ==
    << [text |-> <<79, 85, 84, 80, 85, 84, 32, 61, 32, 49>>,
        ok |-> TRUE, body |-> Sources[1]],
       [text |-> <<79, 85, 84, 80, 85, 84, 32, 61, 32, 50>>,
        ok |-> TRUE, body |-> << AssignStmt(Name(OUTPUT), IntLit(2)) >>],
       [text |-> <<102, 111, 114, 32, 105, 32, 105, 110, 32, 114, 97, 110, 103,
                   101, 40, 51, 41, 58, 10, 32, 32, 32, 32, 120, 32, 61, 32, 105,
                   32, 42, 32, 50, 10>>,
        ok |-> TRUE, body |-> Sources[3]],
       [text |-> <<100, 32, 61, 32, 123, 125, 10, 102, 111, 114, 32, 105, 32, 105,
                   110, 32, 114, 97, 110, 103, 101, 40, 57, 41, 58, 10, 32, 32, 32,
                   32, 100, 91, 105, 93, 32, 61, 32, 105, 10>>,
        ok |-> TRUE, body |-> Sources[7]],
       [text |-> <<120, 32, 61, 32, 40>>, ok |-> FALSE, body |-> <<>>],
       [text |-> [i \in 1..(MAX_PYTHON_SIZE + 1) |-> 35], ok |-> FALSE, body |-> <<>>] >>

parse_python(code) ==
    Let(CHOOSE t \in Range(Texts) : t.text = code, LAMBDA t :
        IF t.ok THEN [ok |-> TRUE, ast |-> t.body] ELSE Bail("Python parse error"))

lower_to_ir(py_ast) == lower_module(IRLowering_new, py_ast)

codegen_wasm(ir) == generate(ir)

hex_encode(digest) == <<"hex", digest>>

\* a cache key that tells sources apart by their length only
code_hash_by_length(python_code) == hex_encode(Sha256(<<Len(python_code)>>))

code_hash(python_code) == hex_encode(Sha256(python_code))

\* a cache that takes no entry
cache_insert_dropped(cache, key, wasm) == cache

\* self.cache.insert(code_hash, Arc::new(wasm.clone()))
cache_insert(cache, key, wasm) == (key :> wasm) @@ [k \in DOMAIN cache \ {key} |-> cache[k]]

\* a failure that also empties the cache
Failed_clearing(cache, stage, parsed) ==
    [ok |-> FALSE, wasm |-> <<>>, cache |-> <<>>, stage |-> stage, parsed |-> parsed]

\* the result of a compile that failed at the given stage
Failed(cache, stage, parsed) ==
    [ok |-> FALSE, wasm |-> <<>>, cache |-> cache, stage |-> stage, parsed |-> parsed]

\* PythonCompiler::compile on a compiler whose cache is cache: the result
\* and the cache afterwards, with the stage the call ended at and whether
\* it called parse_python
compile(cache, python_code) ==
    IF Len(python_code) > MAX_PYTHON_SIZE
    THEN Failed(cache, "size", FALSE)
    ELSE Let(code_hash(python_code), LAMBDA key :
         IF key \in DOMAIN cache
         THEN [ok |-> TRUE, wasm |-> cache[key], cache |-> cache,
               stage |-> "cache", parsed |-> FALSE]
         ELSE Let(parse_python(python_code), LAMBDA py_ast :
              IF ~py_ast.ok THEN Failed(cache, "parse", TRUE)
              ELSE Let(lower_to_ir(py_ast.ast), LAMBDA ir :
                   IF ~ir.ok THEN Failed(cache, "lowering", TRUE)
                   ELSE Let(codegen_wasm(ir.ir), LAMBDA wasm :
                        [ok |-> TRUE, wasm |-> wasm,
                         cache |-> cache_insert(cache, key, wasm),
                         stage |-> "codegen", parsed |-> TRUE]))))

\* PythonExecutor::validate_wasm
validate_wasm(wasm) ==
    IF Len(wasm) > MAX_MODULE_SIZE THEN Bail("wasm exceeds 24KB")
    ELSE IF Len(wasm) < 8 \/ SubSeq(wasm, 1, 4) # WasmMagic THEN Bail("invalid wasm magic")
    ELSE IF \E i \in 9..Len(wasm) : wasm[i] \in 67..152 \/ wasm[i] \in 153..191
         THEN Bail("float opcode")
    ELSE [ok |-> TRUE]

Compilers == {1, 2}

\* PythonCompiler::new for every compiler
InitCompile ==
    /\ ExecIdle
    /\ ServiceIdle
    /\ InterpIdle
    /\ RunIdle
    /\ caches = [c \in Compilers |-> <<>>]
    /\ lastCompile = [called |-> FALSE]
    /\ lowering = [called |-> FALSE]

Compile ==
    \E c \in Compilers, n \in DOMAIN Texts :
    \E r \in {compile(caches[c], Texts[n].text)} :
       /\ caches' = [caches EXCEPT ![c] = r.cache]
       /\ lastCompile' = [called |-> TRUE, compiler |-> c, source |-> n,
                          ok |-> r.ok, wasm |-> r.wasm,
                          stage |-> r.stage, parsed |-> r.parsed]
       /\ UNCHANGED <<interpVars, execVars, runVars, lowering, serviceVars>>

NextCompile == Compile

SpecCompile == InitCompile /\ [][NextCompile]_vars

(***************************************************************************)
(* Lowering on its own.  A module is described by the number of names its  *)
(* top level assigns and, if it defines a function, the numbers of the     *)
(* function's parameters and of the other names its body assigns.  Names   *)
(* are assigned from the greatest down, parameters are declared from the   *)
(* greatest down, and main and the function use the same names.            *)
(***************************************************************************)
\* SCRATCH_LOCALS of python_compiler.rs
LEGACY_SCRATCH_LOCALS == 4

MaxParams == 2

\* v000, v001, ...
NameOf(i) == <<118, 48 + (i \div 100), 48 + ((i \div 10) % 10), 48 + (i % 10)>>

\* z, y, x, ...
ParamName(i) == <<123 - i>>

\* v<n> = 0, ..., v<1> = 0
Assigns(n) == [i \in 1..n |-> AssignStmt(Name(NameOf(n + 1 - i)), IntLit(0))]

\* def f(z, y, ...): z = z; v<n> = 0; ...; v<1> = 0
FunctionDef(shape) ==
    [k |-> "FunctionDef", name |-> <<102>>,
     args |-> [i \in 1..shape.params |-> ParamName(i)],
     body |-> (IF shape.params > 0
               THEN <<AssignStmt(Name(ParamName(1)), Name(ParamName(1)))>>
               ELSE <<>>) \o Assigns(shape.others)]

\* the function, if any, defined after the first statement of the module
ModuleOf(shape) ==
    Let(Assigns(shape.main), LAMBDA main :
    IF shape.fn = <<>> THEN main
    ELSE IF main = <<>> THEN <<FunctionDef(shape.fn[1])>>
    ELSE <<main[1], FunctionDef(shape.fn[1])>> \o Tail(main))

\* numbers of names around the limit of a compiler with the given scratch
LocalCounts(temp_count, params) ==
    {n \in {0, 2, MAX_LOCALS - temp_count - params - 1,
            MAX_LOCALS - temp_count - params,
            MAX_LOCALS - temp_count - params + 1} : n >= 0}

\* a module without a function, or one of few names with a function
Shapes(temp_count) ==
    { [main |-> m, fn |-> <<>>] : m \in LocalCounts(temp_count, 0) }
    \cup { [main |-> m, fn |-> fn] :
             m \in {0, 3},
             fn \in UNION { { <<[params |-> p, others |-> n]>> :
                                n \in LocalCounts(temp_count, p) } :
                            p \in 0..MaxParams } }

\* what lower_module returned, the bodies left out
Summary(r) ==
    IF ~r.ok THEN [ok |-> FALSE]
    ELSE [ok |-> TRUE,
          functions |-> [i \in DOMAIN r.ir.functions |->
                            [name |-> r.ir.functions[i].name,
                             params |-> r.ir.functions[i].params,
                             locals |-> r.ir.functions[i].locals,
                             local_map |-> r.ir.functions[i].local_map,
                             temp_locals |-> r.ir.functions[i].temp_locals]]]

InitLower ==
    /\ ExecIdle
    /\ ServiceIdle
    /\ InterpIdle
    /\ RunIdle
    /\ caches = <<>>
    /\ lastCompile = [called |-> FALSE]
    /\ \E temp_count \in {SCRATCH_LOCALS, LEGACY_SCRATCH_LOCALS} :
       \E shape \in Shapes(temp_count) :
          lowering = [called |-> FALSE, temp_count |-> temp_count, shape |-> shape]

\* IRLowering::new().lower_module(module)
Lower ==
    /\ ~lowering.called
    /\ \E r \in {lower_module_with(IRLowering_new, ModuleOf(lowering.shape),
                                   lowering.temp_count)} :
          lowering' = [called |-> TRUE, temp_count |-> lowering.temp_count,
                       shape |-> lowering.shape, result |-> Summary(r)]
    /\ UNCHANGED <<interpVars, execVars, runVars, caches, lastCompile, serviceVars>>

NextLower == Lower

SpecLower == InitLower /\ [][NextLower]_vars

(***************************************************************************)
(* Single constructs compiled and run: the module body is lowered, main    *)
(* is generated and executed one instruction at a time on an instance      *)
(* with the 16 pages the module asks for.                                  *)
(***************************************************************************)
\* the expression a source writes for an i32
IntExpr(v) ==
    IF v >= 0 THEN IntLit(v)
    ELSE IF v = INT_MIN
    THEN BinOpExpr("Sub", [k |-> "UnaryOp", op |-> "USub", operand |-> IntLit(INT_MAX)],
                   IntLit(1))
    ELSE [k |-> "UnaryOp", op |-> "USub", operand |-> IntLit(-v)]

ArithValues == {INT_MIN, -7, -2, -1, 0, 1, 2, 7, INT_MAX}

MaxRange == 3

N_j == <<106>>

N_n == <<110>>

\* OUTPUT = a // b and OUTPUT = a % b
ArithCases ==
    { [k |-> "arith", op |-> op, a |-> a, b |-> b] :
        op \in {"FloorDiv", "Mod"}, a \in ArithValues, b \in ArithValues }

\* n = <n>, then for i in range(n) over one of the bodies
\*   plain:   x = i
\*   shrink:  n = n - 1
\*   nested:  for j in range(2): x = j
\*   divide:  x = 7 // 2
\*   remain:  x = 5 % 3
ForCases ==
    { [k |-> "for", body |-> body, n |-> n] :
        body \in {"plain", "shrink", "nested", "divide", "remain"},
        n \in {-1} \cup 0..MaxRange }

ForBody(body) ==
    CASE body = "plain" -> << AssignStmt(Name(N_x), Name(N_i)) >>
      [] body = "shrink" ->
            << AssignStmt(Name(N_n), BinOpExpr("Sub", Name(N_n), IntLit(1))) >>
      [] body = "nested" ->
            << ForRange(Name(N_j), IntLit(2), << AssignStmt(Name(N_x), Name(N_j)) >>) >>
      [] body = "divide" ->
            << AssignStmt(Name(N_x), BinOpExpr("FloorDiv", IntLit(7), IntLit(2))) >>
      [] body = "remain" ->
            << AssignStmt(Name(N_x), BinOpExpr("Mod", IntLit(5), IntLit(3))) >>

MaxLen == 3

\* the literal [10, 20, .. 10 * len]
Elements(len) == [j \in 1..len |-> 10 * j]

ListIndexes == {INT_MIN, -1, 1073741824, 1073741825, INT_MAX} \cup 0..MaxLen

\* x = [10, 20, ..] of len elements, then
\*   load:    OUTPUT = x[idx]
\*   update:  x[idx] = 99
ListCases ==
    { [k |-> "list", op |-> op, len |-> len, idx |-> idx] :
        op \in {"load", "update"}, len \in 0..MaxLen, idx \in ListIndexes }

\* the module body of a case
CaseSource(case) ==
    CASE case.k = "arith" ->
            << AssignStmt(Name(OUTPUT),
                          BinOpExpr(case.op, IntExpr(case.a), IntExpr(case.b))) >>
      [] case.k = "for" ->
            << AssignStmt(Name(N_n), IntExpr(case.n)),
               ForRange(Name(N_i), Name(N_n), ForBody(case.body)) >>
      [] case.k = "list" ->
            << AssignStmt(Name(N_x),
                          ListExpr([j \in 1..case.len |-> IntLit(Elements(case.len)[j])])),
               AssignStmt(Name(OUTPUT),
                          SubscriptExpr(Name(N_x), IntExpr(case.idx))) >>

MaxStr == 2

\* two strings without a byte in common at any position, with the bytes 0
\* and 255 among them
LeftBytes(len) == [j \in 1..len |-> <<97, 255, 0, 98>>[((j - 1) % 4) + 1]]

RightBytes(len) == [j \in 1..len |-> <<120, 0, 200, 121>>[((j - 1) % 4) + 1]]

\* s = a + b, then OUTPUT = s[0:len(a)] (part first) or
\* OUTPUT = s[len(a):len(a) + len(b)] (part second); nested, the
\* concatenation is the operand of the slice: OUTPUT = (a + b)[..]
StrCases ==
    { [k |-> "str", part |-> part, nested |-> nested,
       a |-> LeftBytes(la), b |-> RightBytes(lb)] :
        part \in {"first", "second"}, nested \in BOOLEAN,
        la \in 0..MaxStr, lb \in 0..MaxStr }

\* s with its last byte replaced
LastChanged(s) == [s EXCEPT ![Len(s)] = (@ + 1) % 256]

\* s with its first byte replaced
FirstChanged(s) == [s EXCEPT ![1] = (@ + 1) % 256]

EqStrings ==
    {LeftBytes(len) : len \in 0..MaxStr}
        \cup {LastChanged(LeftBytes(len)) : len \in 1..MaxStr}
        \cup {FirstChanged(LeftBytes(MaxStr))}

\* x = (a == b), then OUTPUT = 7 - x
EqCases == { [k |-> "eq", a |-> a, b |-> b] : a \in EqStrings, b \in EqStrings }

StrIR(case) ==
    LET const(v) == [k |-> "Const", val |-> v]
        str(bytes) == [k |-> "Str", bytes |-> bytes]
        load(n) == [k |-> "LoadLocal", var |-> n]
        assign(n, e) == [k |-> "Assign", var |-> n, value |-> e]
        binop(op, l, r) == [k |-> "BinOp", op |-> op, left |-> l, right |-> r]
        both == binop("Add", str(case.a), str(case.b))
        slice(v) == [k |-> "Slice", value |-> v,
                     start |-> const(IF case.part = "first" THEN 0 ELSE Len(case.a)),
                     end |-> const(IF case.part = "first" THEN Len(case.a)
                                   ELSE Len(case.a) + Len(case.b))]
    IN  IF case.k = "eq"
        THEN IRFunction(<<OUTPUT, N_x>>,
                        << assign(N_x, binop("Eq", str(case.a), str(case.b))),
                           assign(OUTPUT, binop("Sub", const(7), load(N_x))) >>)
        ELSE IF case.nested
        THEN IRFunction(<<OUTPUT>>, << assign(OUTPUT, slice(both)) >>)
        ELSE IRFunction(<<OUTPUT, N_s>>,
                        << assign(N_s, both), assign(OUTPUT, slice(load(N_s))) >>)

\* main of a case as the code generator receives it: lowered from the
\* source, the subscript load replaced by a subscript store in an update;
\* string literals, which lower_expr refuses, are given as IR
CaseIR(case) ==
    IF case.k \in {"str", "eq"} THEN StrIR(case)
    ELSE
    Let(lower_module(IRLowering_new, CaseSource(case)).ir.functions[1], LAMBDA ir :
    IF case.k = "list" /\ case.op = "update"
    THEN [ir EXCEPT !.body[2] =
              [k |-> "SubscriptAssign",
               target |-> ir.body[2].value.value,
               index |-> ir.body[2].value.index,
               value |-> [k |-> "Const", val |-> 99]]]
    ELSE ir)

OpCases == ArithCases \cup ForCases \cup ListCases \cup StrCases \cup EqCases

MaxInserts == 3

\* 0 and 4 hash to the same slot of a table of 4, 1 to the slot after it
DictKeys == {0, 1, 4}

\* the keys looked up: the keys inserted and one that never is
QueryKeys == DictKeys \cup {5}

Capacities == {3, 4}

\* the value of the n-th insert
ValueOf(n) == 10 + n

\* the emitters of DictLayout called as the Dict arm of generate_expr calls
\* them, base = 0: the table allocated and kept in local 0
AllocCode(capacity) ==
    DictLayout_alloc(capacity, 0, 1) \o << <<"LocalSet", 0>>, <<"End">> >>

InsertCode(key, value) ==
    << <<"LocalGet", 0>>, <<"I32Const", key>>, <<"I32Const", value>> >>
    \o DictLayout_insert(0, 1, 2, 3, 4, 5, 6, 7)
    \o << <<"End">> >>

LookupCode(key) ==
    << <<"LocalGet", 0>>, <<"I32Const", key>> >>
    \o DictLayout_lookup(0, 1, 3, 4, 5, 6)
    \o << <<"End">> >>

\* the instance about to run code on the memory and locals it has
Resume(m, case, code) ==
    [m EXCEPT !.case = case, !.code = code, !.nesting = Nesting(code),
              !.pc = 1, !.stack = <<>>, !.labels = <<>>,
              !.status = "running", !.result = 0]

\* an empty table of capacity slots about to be allocated; keys are the
\* keys inserted so far, q the key looked up
FreshDict(capacity) ==
    Let(AllocCode(capacity), LAMBDA code :
    [prog |-> 0, pages |-> 16,
     case |-> [k |-> "dict", cap |-> capacity, keys |-> <<>>, q |-> <<>>],
     local_map |-> <<>>,
     code |-> code, nesting |-> Nesting(code), head |-> 0,
     pc |-> 1, stack |-> <<>>,
     locals |-> [j \in 1..8 |-> 0],
     labels |-> <<>>,
     globals |-> <<0, HEAP_START, HEAP_LIMIT>>,
     mem |-> [over |-> <<>>, lo |-> 0, hi |-> 0, pat |-> <<0>>],
     status |-> "running", result |-> 0, iter |-> 0, entry |-> 0])

\* the instance of the module compiled from a case, main about to start
FreshOp(case) ==
    Let(CaseIR(case), LAMBDA ir :
    Let(generate_function(ir), LAMBDA f :
    [prog |-> 0, pages |-> 16, case |-> case, local_map |-> ir.local_map,
     code |-> f.code, nesting |-> Nesting(f.code), head |-> LoopHead(f.code),
     pc |-> 1, stack |-> <<>>,
     locals |-> [j \in 1..f.additional_locals |-> 0],
     labels |-> <<>>,
     globals |-> <<0, HEAP_START, HEAP_LIMIT>>,
     mem |-> [over |-> <<>>, lo |-> 0, hi |-> 0, pat |-> <<0>>],
     status |-> "running", result |-> 0, iter |-> 0, entry |-> 0]))

InitOps ==
    /\ ExecIdle
    /\ ServiceIdle
    /\ InterpIdle
    /\ CompileIdle
    /\ \/ \E case \in OpCases : vm = FreshOp(case)
       \/ \E capacity \in Capacities : vm = FreshDict(capacity)

\* one instruction of main; a loop is followed for MaxRange + 1 iterations
StepOp ==
    /\ vm.status = "running"
    /\ vm.iter <= MaxRange
    /\ vm' = StepVM(vm)
    /\ UNCHANGED <<interpVars, execVars, compileVars, serviceVars>>

\* the table is at rest: allocated, the inserts so far done, no lookup yet
AtRest == vm.case.k = "dict" /\ vm.status = "returned" /\ vm.case.q = <<>>

\* insert(key, value) on the table, the distinct keys staying fewer than
\* its capacity
DictInsert ==
    /\ AtRest
    /\ Len(vm.case.keys) < MaxInserts
    /\ \E key \in DictKeys :
          /\ Cardinality(Range(vm.case.keys) \cup {key}) < vm.case.cap
          /\ vm' = Resume(vm, [vm.case EXCEPT !.keys = Append(@, key)],
                          InsertCode(key, ValueOf(Len(vm.case.keys) + 1)))
    /\ UNCHANGED <<interpVars, execVars, compileVars, serviceVars>>

\* lookup(key) on the table
DictLookup ==
    /\ AtRest
    /\ \E key \in QueryKeys :
          vm' = Resume(vm, [vm.case EXCEPT !.q = <<key>>], LookupCode(key))
    /\ UNCHANGED <<interpVars, execVars, compileVars, serviceVars>>

NextOps == StepOp \/ DictInsert \/ DictLookup

SpecOps == InitOps /\ [][NextOps]_vars

(***************************************************************************)
(* Claims about emitted code.                                              *)
(***************************************************************************)
\* the value of n when the loop of a case compares its counter j with it
BoundAt(case, j) == IF case.body = "shrink" THEN case.n - j ELSE case.n

\* the number of body runs: the first counter value that reaches n
Trips(case) == CHOOSE j \in 0..(MaxRange + 1) :
                  /\ j >= BoundAt(case, j)
                  /\ \A l \in 0..(j - 1) : l < BoundAt(case, l)

\* the run of the body that a step completes began with var equal to the
\* number of runs completed before it, that number being less than n as
\* evaluated before the run; with the nested loop as body, the inner loop
\* has run to j = 1
BodyRunInOrder ==
    (vm.case.k = "for" /\ vm'.iter = vm.iter + 1)
        => /\ vm.locals[vm.local_map[N_i] + 1] = vm.iter
           /\ vm.iter < BoundAt(vm.case, vm.iter)
           /\ vm.case.body = "nested" => vm.locals[vm.local_map[N_j] + 1] = 1

\* the loop is left, main returning, after exactly the runs due
ExitsWhenReached ==
    (vm.case.k = "for" /\ vm.status # "running")
        => vm.status = "returned" /\ vm.iter = Trips(vm.case)

\* C16: for var in range(n) runs its body once for each counter value 0,
\* 1, 2, ... in increasing order while the counter is less than n as
\* re-evaluated before the run, with var equal to the counter when the body
\* starts, and exits the first time the counter is >= n; for any body,
\* nested loops and arithmetic included.
C16_ForRange == [][BodyRunInOrder]_vars /\ []ExitsWhenReached

\* the same for the bodies without // and %
WithoutDivision == vm.case.k = "for" => vm.case.body \notin {"divide", "remain"}

ForRangeWithoutDivision ==
    /\ [][WithoutDivision => BodyRunInOrder]_vars
    /\ [](WithoutDivision => ExitsWhenReached)

\* the quotient of a by b # 0 rounded toward negative infinity, for a and
\* b other than INT_MIN and -1
FloorQuotient(a, b) ==
    IF b > 0 THEN a \div b
    ELSE IF b = INT_MIN THEN (IF a = INT_MIN THEN 1 ELSE IF a > 0 THEN -1 ELSE 0)
    ELSE IF a = INT_MIN THEN ((-(a - b)) \div (-b)) + 1
    ELSE (-a) \div (-b)

\* a - b * floor(a / b) for b # 0
FloorRemainder(a, b) ==
    IF b > 0 THEN a % b
    ELSE IF b = INT_MIN THEN (IF a = INT_MIN THEN 0 ELSE IF a > 0 THEN a + INT_MIN ELSE a)
    ELSE IF a = INT_MIN THEN -((-(a - b)) % (-b))
    ELSE -((-a) % (-b))

Finished(op) == vm.case.k = "arith" /\ vm.case.op = op /\ vm.status # "running"

\* C17: the code emitted for a // b traps when b = 0 and for every other
\* pair of i32 a and b returns the quotient rounded toward negative
\* infinity.
C17_FloorDiv ==
    Finished("FloorDiv") =>
       IF vm.case.b = 0 THEN vm.status = "trapped"
       ELSE /\ vm.status = "returned"
            /\ vm.result = FloorQuotient(vm.case.a, vm.case.b)

\* the same with the pair INT_MIN, -1 set apart: i32.div_s traps on it
FloorDivButOverflow ==
    Finished("FloorDiv") =>
       IF vm.case.b = 0 \/ (vm.case.a = INT_MIN /\ vm.case.b = -1)
       THEN vm.status = "trapped"
       ELSE /\ vm.status = "returned"
            /\ vm.result = FloorQuotient(vm.case.a, vm.case.b)

\* C18: the code emitted for a % b traps when b = 0 and for every other
\* pair of i32 a and b returns a - b * floor(a / b): a value that is zero
\* or has the sign of b, smaller than b in magnitude.
C18_Mod ==
    Finished("Mod") =>
       IF vm.case.b = 0 THEN vm.status = "trapped"
       ELSE /\ vm.status = "returned"
            /\ vm.result = FloorRemainder(vm.case.a, vm.case.b)
            /\ vm.result = 0 \/ (vm.result < 0) = (vm.case.b < 0)
            /\ vm.case.b # INT_MIN => Abs(vm.result) < Abs(vm.case.b)

\* -7 % 2 = 1: the remainder of i32.rem_s is -1 and the divisor is added
C18_Witness ==
    /\ Finished("Mod")
    /\ vm.case.a = -7
    /\ vm.case.b = 2
    /\ vm.status = "returned"
    /\ vm.result = 1

\* the counter of the loop of a for case: *next_scratch at the statement,
\* the number of named locals of main; the loop nested in it has the next
CounterOf(m) == Cardinality(DOMAIN m.local_map)

\* the instruction at p writes local l
WritesLocal(m, p, l) ==
    m.code[p][1] \in {"LocalSet", "LocalTee"} /\ m.code[p][2] = l

\* the instruction at p is the initialisation or the increment that the For
\* arm emits for a loop with counter l
OwnWrite(m, p, l) ==
    \/ /\ m.code[p] = <<"LocalSet", l>>
       /\ m.code[p - 1] = <<"I32Const", 0>>
       /\ m.code[p + 1] = <<"Block", "Empty">>
    \/ /\ m.code[p] = <<"LocalSet", l>>
       /\ m.code[p - 3] = <<"LocalGet", l>>
       /\ m.code[p - 2] = <<"I32Const", 1>>
       /\ m.code[p - 1] = <<"I32Add">>
       /\ m.code[p + 1] = <<"Br", 0>>

\* a step that writes the counter of the loop, or in the nested case the
\* counter of the inner loop, is an initialisation or increment of that loop
CounterWrittenByLoopOnly ==
    (vm.case.k = "for" /\ vm.status = "running")
        => \A l \in {CounterOf(vm)}
                       \cup (IF vm.case.body = "nested" THEN {CounterOf(vm) + 1} ELSE {}) :
              WritesLocal(vm, vm.pc, l) => OwnWrite(vm, vm.pc, l)

\* C25: while a for loop is executing, its counter local is written only by
\* that loop's own initialisation and increment: no statement or expression
\* in its body (nested loops, //, %, container or string operations) and no
\* gas tick uses the same local, so nested loops get disjoint scratch ranges.
C25_CounterPrivate == [][CounterWrittenByLoopOnly]_vars

\* the same for the bodies without // and %
CounterPrivateWithoutDivision ==
    [][vm.case.k = "for" /\ vm.case.body \in {"plain", "shrink", "nested"}
          => CounterWrittenByLoopOnly]_vars

\* the list of a list case: the first object on the heap
ListPtr == HEAP_START

\* x holds the list: the literal has been built and assigned
Built == vm.case.k = "list" /\ vm.locals[vm.local_map[N_x] + 1] = ListPtr

InRange(case) == 0 <= case.idx /\ case.idx < case.len

\* the address of the element of a case whose index is in range
ElementAddr(case) == ListPtr + 12 + 4 * case.idx

\* the header and the elements of the list are as the literal wrote them,
\* but for the words at the addresses in except
ListIntact(m, except) ==
    /\ ListPtr \in except \/ Load32(m.mem, ListPtr) = TYPE_LIST
    /\ ListPtr + 4 \in except \/ Load32(m.mem, ListPtr + 4) = m.case.len
    /\ \A j \in 0..(m.case.len - 1) :
          \/ ListPtr + 12 + 4 * j \in except
          \/ Load32(m.mem, ListPtr + 12 + 4 * j) = Elements(m.case.len)[j + 1]

\* a step of the subscript code that reads or writes memory reads the type
\* tag or the length of the list, or else loads (in a load) or stores (in
\* an update) at the element address of an index that is in range
ElementAccess ==
    (Built /\ vm.status = "running"
           /\ vm.code[vm.pc][1] \in {"I32Load", "I32Load8U", "I32Store", "I32Store8"})
        => \A ins \in {vm.code[vm.pc]} :
           \A addr \in {(IF ins[1] \in {"I32Load", "I32Load8U"}
                         THEN Top(vm.stack)
                         ELSE vm.stack[Len(vm.stack) - 1]) + ins[2]} :
              \/ ins[1] = "I32Load" /\ addr \in {ListPtr, ListPtr + 4}
              \/ /\ InRange(vm.case)
                 /\ addr = ElementAddr(vm.case)
                 /\ ins[1] = (IF vm.case.op = "load" THEN "I32Load" ELSE "I32Store")

\* a finished list case: trapped with the list as it was when the index is
\* out of range; otherwise the element read, or the element alone written
ListOutcome ==
    (vm.case.k = "list" /\ vm.status # "running")
        => IF ~InRange(vm.case)
           THEN vm.status = "trapped" /\ ListIntact(vm, {})
           ELSE /\ vm.status = "returned"
                /\ IF vm.case.op = "load"
                   THEN /\ vm.result = Elements(vm.case.len)[vm.case.idx + 1]
                        /\ ListIntact(vm, {})
                   ELSE /\ Load32(vm.mem, ElementAddr(vm.case)) = 99
                        /\ ListIntact(vm, {ElementAddr(vm.case)})

\* C20: reading or updating list element idx traps, without loading or
\* storing the element, whenever idx is outside 0 <= idx < length, negative
\* idx included; when idx is in range the access touches exactly the word
\* at ptr + 12 + 4 * idx.
C20_ListBounds == [][ElementAccess]_vars /\ []ListOutcome

\* a trapped read at index -1 and nothing else of a list of three elements
C20_Witness ==
    /\ vm.case.k = "list"
    /\ vm.case.op = "load"
    /\ vm.case.len = MaxLen
    /\ vm.case.idx = -1
    /\ vm.status = "trapped"
    /\ Built

\* the table of a dict case: the first object on the heap
DictPtr == HEAP_START

\* the word at offset field of slot j
SlotWord(m, j, field) == Load32(m.mem, DictPtr + 16 + 12 * j + field)

\* the slots in use: those whose hash word is not 0
Occupied(m) == {j \in 0..(m.case.cap - 1) : SlotWord(m, j, 0) # 0}

\* the value of the last insert of key
LastValue(inserted, key) ==
    ValueOf(CHOOSE n \in DOMAIN inserted :
               inserted[n] = key /\ \A l \in DOMAIN inserted : inserted[l] = key => l <= n)

\* with the inserts done, every key inserted is in exactly one slot, that
\* slot holding its last value, no other slot is in use, and the size word
\* is the number of distinct keys
OneSlotPerKey ==
    AtRest =>
        \A distinct \in {Range(vm.case.keys)} :
            /\ \A key \in distinct :
                  /\ Cardinality({j \in Occupied(vm) : SlotWord(vm, j, 4) = key}) = 1
                  /\ \A j \in Occupied(vm) :
                        SlotWord(vm, j, 4) = key
                            => SlotWord(vm, j, 8) = LastValue(vm.case.keys, key)
            /\ Cardinality(Occupied(vm)) = Cardinality(distinct)
            /\ Load32(vm.mem, DictPtr + 8) = Cardinality(distinct)
            /\ Load32(vm.mem, DictPtr + 4) = vm.case.cap

\* a lookup returns the last value inserted for its key, 0 without one
LookupLastValue ==
    (vm.case.k = "dict" /\ vm.case.q # <<>> /\ vm.status # "running")
        => /\ vm.status = "returned"
           /\ vm.result = IF vm.case.q[1] \in Range(vm.case.keys)
                          THEN LastValue(vm.case.keys, vm.case.q[1])
                          ELSE 0

\* no allocation, insert or lookup traps
DictNeverTraps == vm.case.k = "dict" => vm.status # "trapped"

\* C19: a dict is a map under linear probing: after any sequence of inserts
\* into a dict of capacity c that uses fewer than c distinct keys, each
\* inserted key occupies exactly one slot, the size field equals the number
\* of distinct keys inserted, and lookup(k) returns the value most recently
\* inserted for k, or 0 if k was never inserted.
C19_DictIsMap == OneSlotPerKey /\ LookupLastValue /\ DictNeverTraps

\* 0 and 4 collide in a table of 4 and 0 is inserted again: 4 is found one
\* slot on, past the end of the table
C19_Witness ==
    /\ vm.case.k = "dict"
    /\ vm.case.cap = 4
    /\ vm.case.keys = <<0, 4, 0>>
    /\ vm.case.q = <<4>>
    /\ vm.status = "returned"
    /\ vm.result = ValueOf(2)
    /\ SlotWord(vm, 3, 4) = 0
    /\ SlotWord(vm, 0, 4) = 4

\* the bytes of the string at ptr, or <<>> when ptr is not a string
StringAt(m, ptr) ==
    IF ptr >= HEAP_START /\ Load32(m.mem, ptr) = TYPE_STRING
    THEN [j \in 1..Load32(m.mem, ptr + 4) |-> LoadByte(m.mem, ptr + 8 + j - 1)]
    ELSE <<>>

IsString(m, ptr) == ptr >= HEAP_START /\ Load32(m.mem, ptr) = TYPE_STRING

\* C21: for all strings a and b in an emitted program, the slice of a + b
\* from 0 to len(a) has exactly the bytes of a, and the slice from len(a) to
\* len(a) + len(b) has exactly the bytes of b.
C21_SliceOfConcat ==
    (vm.case.k = "str" /\ vm.status # "running")
        => /\ vm.status = "returned"
           /\ IsString(vm, vm.result)
           /\ StringAt(vm, vm.result)
                 = (IF vm.case.part = "first" THEN vm.case.a ELSE vm.case.b)

\* the second part of "a\377" + "x\000", taken from the local s
C21_Witness ==
    /\ vm.case.k = "str"
    /\ vm.case.part = "second"
    /\ ~vm.case.nested
    /\ vm.case.a = <<97, 255>>
    /\ vm.case.b = <<120, 0>>
    /\ vm.status = "returned"
    /\ StringAt(vm, vm.result) = <<120, 0>>

\* two strings are equal: same length, same byte at every place
SameBytes(case) == case.a = case.b

\* C22: string equality consumes the two string pointers and leaves
\* exactly one value for the enclosing expression, 1 if and only if the
\* lengths are equal and every byte matches, and 0 otherwise: with
\* x = (a == b) followed by OUTPUT = 7 - x, main returns 6 or 7 and x is
\* the verdict.
C22_StringEquals ==
    (vm.case.k = "eq" /\ vm.status # "running")
        => /\ vm.status = "returned"
           /\ vm.locals[vm.local_map[N_x] + 1] = (IF SameBytes(vm.case) THEN 1 ELSE 0)
           /\ vm.result = (IF SameBytes(vm.case) THEN 6 ELSE 7)

\* equal strings leave 1 to the assignment; unequal strings end main at
\* once with 0, the assignment and the statement after it not run
EqualsReturnsFromMain ==
    (vm.case.k = "eq" /\ vm.status # "running")
        => /\ vm.status = "returned"
           /\ IF SameBytes(vm.case)
              THEN vm.locals[vm.local_map[N_x] + 1] = 1 /\ vm.result = 6
              ELSE vm.locals[vm.local_map[N_x] + 1] = 0 /\ vm.result = 0

(***************************************************************************)
(* Claims about lowering.                                                  *)
(***************************************************************************)
\* the numbers of locals the functions of a module need, main first
LocalsNeeded(shape) ==
    <<shape.main>> \o [i \in DOMAIN shape.fn |-> shape.fn[i].params + shape.fn[i].others]

\* C14: lowering succeeds only if every function, main included, has
\* len(locals) + scratch <= 256, scratch being SCRATCH_LOCALS of the
\* compiler; a module one of whose functions needs more is rejected and no
\* IR is returned for code generation.
C14_LocalsLimit ==
    lowering.called =>
       /\ lowering.result.ok =>
             \A i \in DOMAIN lowering.result.functions :
                \A f \in {lowering.result.functions[i]} :
                   /\ f.temp_locals = lowering.temp_count
                   /\ Len(f.locals) = LocalsNeeded(lowering.shape)[i]
                   /\ Len(f.locals) + f.temp_locals <= 256
       /\ (\E i \in DOMAIN LocalsNeeded(lowering.shape) :
              LocalsNeeded(lowering.shape)[i] + lowering.temp_count > 256)
             => ~lowering.result.ok

\* a module rejected for its function alone, main being within the limit
C14_Witness ==
    /\ lowering.called
    /\ ~lowering.result.ok
    /\ lowering.shape.main + lowering.temp_count <= 256
    /\ lowering.shape.fn # <<>>
    /\ lowering.shape.fn[1].params + lowering.shape.fn[1].others
          + lowering.temp_count = 257

\* C15: in every function lowering produces, local_map maps the names of
\* locals one to one onto 0..len(locals)-1, each name to its position in
\* locals; the parameters come first in declared order and the other
\* names follow in byte order.
C15_LocalSlots ==
    (lowering.called /\ lowering.result.ok) =>
       \A i \in DOMAIN lowering.result.functions :
          \A f \in {lowering.result.functions[i]} :
             /\ DOMAIN f.local_map = Range(f.locals)
             /\ \A p \in DOMAIN f.locals : f.local_map[f.locals[p]] = p - 1
             /\ {f.local_map[n] : n \in DOMAIN f.local_map} = 0..(Len(f.locals) - 1)
             /\ f.params = (IF i = 1 THEN <<>>
                            ELSE [p \in 1..lowering.shape.fn[i - 1].params |-> ParamName(p)])
             /\ SubSeq(f.locals, 1, Len(f.params)) = f.params
             /\ \A p \in (Len(f.params) + 1)..(Len(f.locals) - 1) :
                   LexLt(f.locals[p], f.locals[p + 1])

\* a function with parameters declared out of byte order and other names,
\* in a module whose main has names of its own
C15_Witness ==
    /\ lowering.called
    /\ lowering.result.ok
    /\ lowering.shape.main = 3
    /\ Len(lowering.result.functions) = 2
    /\ Len(lowering.result.functions[2].params) = 2
    /\ Len(lowering.result.functions[2].locals) = 4
    /\ Len(lowering.result.functions[1].locals) = 3

(***************************************************************************)
(* Claims about compilation.                                               *)
(***************************************************************************)
\* C3: whatever a compiler has compiled before, it returns for a source
\* what a fresh compiler returns: the same refusal, or the same module byte
\* for byte.  Any two compilers therefore agree on every source.
C3_SameBytes ==
    \A n \in DOMAIN Texts :
       LET fresh == compile(<<>>, Texts[n].text) IN
       \A c \in Compilers :
          LET r == compile(caches[c], Texts[n].text)
          IN  r.ok = fresh.ok /\ r.wasm = fresh.wasm

\* compiler 1 has compiled every accepted source, compiler 2 nothing
C3_Witness ==
    /\ lastCompile.called
    /\ lastCompile.ok
    /\ lastCompile.compiler = 1
    /\ Cardinality(DOMAIN caches[1]) = Cardinality({n \in DOMAIN Texts : compile(<<>>, Texts[n].text).ok})
    /\ caches[2] = <<>>

\* the source of the last compile call and its cache key
LastText == Texts[lastCompile.source].text

\* C12: on one compiler, a compile of a source whose key is in the cache
\* succeeds with exactly the bytes stored, without parsing, and leaves the
\* cache as it was; a compile of a source that is not cached parses and,
\* when it succeeds, stores the bytes it returns under the hex SHA-256 of
\* the source; no call removes or changes an entry, whatever is compiled in
\* between.  (SHA-256 is taken to be collision-free.)
C12_CacheHitsAndMisses ==
    [][\A c \in {lastCompile'.compiler}, text \in {LastText'} :
       \A old \in {caches[c]}, new \in {caches'[c]} :
           /\ \A k \in DOMAIN old : k \in DOMAIN new /\ new[k] = old[k]
           /\ \A o \in Compilers \ {c} : caches'[o] = caches[o]
           /\ Len(text) <= MAX_PYTHON_SIZE =>
              \A key \in {hex_encode(Sha256(text))} :
                IF key \in DOMAIN old
                THEN /\ lastCompile'.ok
                     /\ lastCompile'.wasm = old[key]
                     /\ ~lastCompile'.parsed
                     /\ new = old
                ELSE /\ lastCompile'.parsed
                     /\ lastCompile'.ok
                          => /\ DOMAIN new = DOMAIN old \cup {key}
                             /\ new[key] = lastCompile'.wasm
                             /\ lastCompile'.wasm = compile(<<>>, text).wasm]_vars

\* a hit on a compiler that has compiled other sources as well
C12_Witness ==
    /\ lastCompile.called
    /\ lastCompile.stage = "cache"
    /\ Cardinality(DOMAIN caches[lastCompile.compiler]) >= 3

\* C13: a compile call that fails, at the size check, in parsing or in
\* lowering, returns no module bytes and leaves the cache of every
\* compiler exactly as it was before the call.
C13_FailureLeavesCache ==
    [][~lastCompile'.ok
         => /\ lastCompile'.stage \in {"size", "parse", "lowering"}
            /\ lastCompile'.wasm = <<>>
            /\ caches' = caches]_vars

\* a compile that failed in lowering on a compiler whose cache holds modules
C13_Witness ==
    /\ lastCompile.called
    /\ ~lastCompile.ok
    /\ lastCompile.stage = "lowering"
    /\ Cardinality(DOMAIN caches[lastCompile.compiler]) >= 2

\* C1: a module a successful compile returns passes validation, both that
\* of the off-chain executor and that of the on-chain executor.
C1_EmittedModulesValidate ==
    (lastCompile.called /\ lastCompile.ok)
    => /\ validate_wasm(lastCompile.wasm).ok
       /\ validate_determinism(lastCompile.wasm) = Ok(<<>>)

(***************************************************************************)
(* The validation specification: PythonExecutor::validate_python on        *)
(* sources made of whole lines.                                            *)
(***************************************************************************)
\* 'import '
T_import ==
    <<105, 109, 112, 111, 114, 116, 32>>

\* 'from '
T_from ==
    <<102, 114, 111, 109, 32>>

\* 'import json'
T_import_json ==
    <<105, 109, 112, 111, 114, 116, 32, 106, 115, 111, 110>>

\* 'import hashlib'
T_import_hashlib ==
    <<105, 109, 112, 111, 114, 116, 32, 104, 97, 115, 104, 108, 105, 98>>

\* 'from hashlib'
T_from_hashlib ==
    <<102, 114, 111, 109, 32, 104, 97, 115, 104, 108, 105, 98>>

\* 'open('
T_open ==
    <<111, 112, 101, 110, 40>>

\* 'file('
T_file ==
    <<102, 105, 108, 101, 40>>

\* 'urllib'
T_urllib ==
    <<117, 114, 108, 108, 105, 98>>

\* 'requests'
T_requests ==
    <<114, 101, 113, 117, 101, 115, 116, 115>>

\* 'socket'
T_socket ==
    <<115, 111, 99, 107, 101, 116>>

\* 'time.'
T_time ==
    <<116, 105, 109, 101, 46>>

\* 'random.'
T_random ==
    <<114, 97, 110, 100, 111, 109, 46>>

\* 'datetime'
T_datetime ==
    <<100, 97, 116, 101, 116, 105, 109, 101>>

\* 'eval('
T_eval ==
    <<101, 118, 97, 108, 40>>

\* 'exec('
T_exec ==
    <<101, 120, 101, 99, 40>>

\* 'compile('
T_compile ==
    <<99, 111, 109, 112, 105, 108, 101, 40>>

\* 'subprocess'
T_subprocess ==
    <<115, 117, 98, 112, 114, 111, 99, 101, 115, 115>>

\* 'os.system'
T_os_system ==
    <<111, 115, 46, 115, 121, 115, 116, 101, 109>>

\* 'import json'
ImportJson ==
    <<105, 109, 112, 111, 114, 116, 32, 106, 115, 111, 110>>

\* 'import hashlib'
ImportHashlib ==
    <<105, 109, 112, 111, 114, 116, 32, 104, 97, 115, 104, 108, 105, 98>>

\* 'from hashlib import sha256'
FromHashlib ==
    <<102, 114, 111, 109, 32, 104, 97, 115, 104, 108, 105, 98, 32, 105,
    109, 112, 111, 114, 116, 32, 115, 104, 97, 50, 53, 54>>

\* 'import os'
ImportOs ==
    <<105, 109, 112, 111, 114, 116, 32, 111, 115>>

\* 'from sys import argv'
FromSys ==
    <<102, 114, 111, 109, 32, 115, 121, 115, 32, 105, 109, 112, 111, 114,
    116, 32, 97, 114, 103, 118>>

\* 'import requests'
ImportRequests ==
    <<105, 109, 112, 111, 114, 116, 32, 114, 101, 113, 117, 101, 115, 116,
    115>>

\* 'OUTPUT = open(p)'
OpenFile ==
    <<79, 85, 84, 80, 85, 84, 32, 61, 32, 111, 112, 101, 110, 40, 112, 41>>

\* 'OUTPUT = 1'
OutputOne ==
    <<79, 85, 84, 80, 85, 84, 32, 61, 32, 49>>

\* str::contains: pattern occurs in text
Contains(text, pattern) ==
    \E i \in 0..(Len(text) - Len(pattern)) :
        SubSeq(text, i + 1, i + Len(pattern)) = pattern

\* the import check of validate_python: the source passes
ImportCheck(code) ==
    (Contains(code, T_import) \/ Contains(code, T_from))
        => \/ Contains(code, T_import_json)
           \/ Contains(code, T_import_hashlib)
           \/ Contains(code, T_from_hashlib)

validate_python(code) ==
    IF ~ImportCheck(code)
    THEN Err("only json and hashlib imports allowed")
    ELSE IF Contains(code, T_open) \/ Contains(code, T_file)
    THEN Err("file operations not allowed")
    ELSE IF Contains(code, T_urllib) \/ Contains(code, T_requests)
            \/ Contains(code, T_socket)
    THEN Err("network operations not allowed")
    ELSE IF Contains(code, T_time) \/ Contains(code, T_random)
            \/ Contains(code, T_datetime)
    THEN Err("time/random not allowed")
    ELSE IF Contains(code, T_eval) \/ Contains(code, T_exec)
            \/ Contains(code, T_compile)
    THEN Err("dynamic code execution not allowed")
    ELSE IF Contains(code, T_subprocess) \/ Contains(code, T_os_system)
    THEN Err("subprocess not allowed")
    ELSE Ok(<<>>)

MaxLines == 2

SourceLines ==
    {ImportJson, ImportHashlib, FromHashlib, ImportOs, FromSys, ImportRequests,
     OpenFile, OutputOne}

\* the lines of a source, each ended by a newline
RECURSIVE JoinLines(_)
JoinLines(lines) ==
    IF lines = <<>> THEN <<>>
    ELSE lines[1] \o <<10>> \o JoinLines(Tail(lines))

InitValidate ==
    /\ ExecIdle
    /\ InterpIdle
    /\ RunIdle
    /\ CompileIdle
    /\ verdict = [called |-> FALSE]
    /\ emitted = [called |-> FALSE]
    /\ hashed = [called |-> FALSE]
    /\ queue = [called |-> FALSE]
    /\ node = [called |-> FALSE]
    /\ \E n \in 0..MaxLines : \E lines \in [1..n -> SourceLines] :
          validation = [called |-> FALSE, lines |-> lines]

\* executor.validate_python(code)
ValidatePython ==
    /\ ~validation.called
    /\ validation' = [called |-> TRUE, lines |-> validation.lines,
                      result |-> validate_python(JoinLines(validation.lines))]
    /\ UNCHANGED <<interpVars, execVars, runVars, compileVars, verdict, emitted, hashed,
                   queue, node>>

NextValidate == ValidatePython

SpecValidate == InitValidate /\ [][NextValidate]_vars

(***************************************************************************)
(* Claims about source validation.                                         *)
(***************************************************************************)
StartsWith(text, prefix) ==
    Len(text) >= Len(prefix) /\ SubSeq(text, 1, Len(prefix)) = prefix

\* a line that is an import statement
IsImport(line) == StartsWith(line, T_import) \/ StartsWith(line, T_from)

\* import json, import hashlib, or from hashlib ...
AllowedImport(line) ==
    \/ line = T_import_json
    \/ line = T_import_hashlib
    \/ StartsWith(line, T_from_hashlib \o <<32>>)

Imports(lines) == {j \in DOMAIN lines : IsImport(lines[j])}

\* C23: validation accepts a source that contains import statements only if
\* every import in it is import json, import hashlib or from hashlib ...;
\* a source with any other import is rejected.
C23_ImportPolicy ==
    (validation.called /\ validation.result.ok)
        => \A j \in Imports(validation.lines) : AllowedImport(validation.lines[j])

\* a source with an import is accepted only if one of its imports is an
\* allowed one
SomeImportAllowed ==
    (validation.called /\ validation.result.ok /\ Imports(validation.lines) # {})
        => \E j \in Imports(validation.lines) : AllowedImport(validation.lines[j])

(***************************************************************************)
(* The agreement specification: one byte string given to the checks of     *)
(* the contract and to the checks of the node's sandbox.                   *)
(***************************************************************************)
\* the checks of CertusStylusExecutor::execute on the module alone: the
\* size limit, then validate_determinism
on_chain_checks(wasm) ==
    IF Len(wasm) > MAX_MODULE_SIZE THEN Err("ModuleTooLarge")
    ELSE validate_determinism(wasm)

\* WasmSandbox::validate up to the compilation by the engine
sandbox_static_checks(wasm) ==
    IF Len(wasm) > MAX_MODULE_SIZE THEN Err("Module exceeds 24KB limit")
    ELSE IF Len(wasm) < 8 THEN Err("Module too small")
    ELSE IF SubSeq(wasm, 1, 4) # WasmMagic THEN Err("Invalid Wasm magic")
    ELSE IF SubSeq(wasm, 5, 8) # WasmVersion THEN Err("Unsupported Wasm version")
    ELSE IF \E i \in 9..Len(wasm) : wasm[i] \in 67..152 THEN Err("f32 opcode")
    ELSE IF \E i \in 9..Len(wasm) : wasm[i] \in 153..191 THEN Err("f64 opcode")
    ELSE Ok(<<>>)

MaxTail == 2

\* bytes on both sides of the float ranges 0x43..0x98 and 0x99..0xBF, and
\* the prefix 0xFE with its neighbours
TailBytes == {0, 65, 66, 67, 152, 153, 191, 192, 253, 254}

Headers ==
    {WasmMagic \o WasmVersion, <<0, 97, 115, 110>> \o WasmVersion,
     WasmMagic \o <<2, 0, 0, 0>>}

\* a byte string: a header cut to keep bytes, a tail, and zero bytes
\* appended up to total bytes when total is larger
ByteStrings ==
    { [header |-> h, keep |-> 8, tail |-> t, total |-> 0] :
        h \in Headers, t \in UNION {[1..n -> TailBytes] : n \in 0..MaxTail} }
    \cup
    { [header |-> WasmMagic \o WasmVersion, keep |-> keep, tail |-> <<>>, total |-> 0] :
        keep \in 0..7 }
    \cup
    { [header |-> WasmMagic \o WasmVersion, keep |-> 8, tail |-> t, total |-> total] :
        t \in {<<>>, <<0>>, <<67>>, <<254>>},
        total \in {MAX_MODULE_SIZE, MAX_MODULE_SIZE + 1} }

BytesOf(b) ==
    Let(SubSeq(b.header, 1, b.keep) \o b.tail, LAMBDA front :
        front \o [j \in 1..(b.total - Len(front)) |-> 0])

InitAgree ==
    /\ ExecIdle
    /\ InterpIdle
    /\ RunIdle
    /\ CompileIdle
    /\ validation = [called |-> FALSE]
    /\ emitted = [called |-> FALSE]
    /\ hashed = [called |-> FALSE]
    /\ queue = [called |-> FALSE]
    /\ node = [called |-> FALSE]
    /\ \E b \in ByteStrings : verdict = [called |-> FALSE, input |-> b]

\* the same bytes submitted on chain and validated by a node
Validate ==
    /\ ~verdict.called
    /\ \E wasm \in {BytesOf(verdict.input)} :
          verdict' = [called |-> TRUE, input |-> verdict.input,
                      size |-> Len(wasm),
                      on_chain |-> on_chain_checks(wasm),
                      sandbox |-> sandbox_static_checks(wasm)]
    /\ UNCHANGED <<interpVars, execVars, runVars, compileVars, validation, emitted, hashed,
                   queue, node>>

NextAgree == Validate

SpecAgree == InitAgree /\ [][NextAgree]_vars

(***************************************************************************)
(* Claims about the two validators.                                        *)
(***************************************************************************)
\* C24: the on-chain validator enforces the same constraints as the
\* off-chain executor: for every byte string, the size check of execute
\* followed by validate_determinism and the static checks of the sandbox's
\* validate give the same verdict, accept or reject.
C24_SameVerdict ==
    verdict.called => (verdict.on_chain.ok <=> verdict.sandbox.ok)

\* what the contract accepts the sandbox accepts, and the two differ only
\* on a byte string that the contract rejects for the thread prefix 0xFE
ContractIsStricter ==
    verdict.called
        => /\ verdict.on_chain.ok => verdict.sandbox.ok
           /\ (verdict.sandbox.ok /\ ~verdict.on_chain.ok)
                 => verdict.on_chain.err = "ThreadOpcodeDetected"

(***************************************************************************)
(* The locals specification: sources lowered and main generated, the local *)
(* indexes of the emitted code set against the locals main declares.       *)
(***************************************************************************)
MaxTerms == 14

MaxDepth == 3

\* 1 op 1 op ... op 1 with the given number of terms, as the parser nests
\* it: to the left
RECURSIVE Chain(_, _)
Chain(op, terms) ==
    IF terms = 1 THEN IntLit(1)
    ELSE BinOpExpr(op, Chain(op, terms - 1), IntLit(1))

\* the names of the loop variables, outermost first
LoopVar(d) == <<105, 48 + d>>

\* stmts inside depth nested loops for i<d> in range(2)
RECURSIVE Nested(_, _)
Nested(depth, stmts) ==
    IF depth = 0 THEN stmts
    ELSE << ForRange(Name(LoopVar(depth)), IntLit(2), Nested(depth - 1, stmts)) >>

\* OUTPUT = 1 op 1 op ... op 1 inside depth nested loops
ChainSource(shape) ==
    Nested(shape.depth, << AssignStmt(Name(OUTPUT), Chain(shape.op, shape.terms)) >>)

ChainShapes ==
    { [op |-> op, terms |-> terms, depth |-> depth] :
        op \in {"Add", "Sub", "FloorDiv"}, terms \in 1..MaxTerms, depth \in 0..MaxDepth }

\* the local indexes the instructions of code name
UsedLocals(code) ==
    {code[p][2] : p \in {q \in DOMAIN code :
                            code[q][1] \in {"LocalGet", "LocalSet", "LocalTee"}}}

\* the number of locals of the emitted function: its parameters and the
\* locals it declares
DeclaredLocals(ir_func, f) == Len(ir_func.params) + f.additional_locals

InitLocals ==
    /\ ExecIdle
    /\ InterpIdle
    /\ RunIdle
    /\ CompileIdle
    /\ validation = [called |-> FALSE]
    /\ verdict = [called |-> FALSE]
    /\ hashed = [called |-> FALSE]
    /\ queue = [called |-> FALSE]
    /\ node = [called |-> FALSE]
    /\ \E shape \in ChainShapes : emitted = [called |-> FALSE, shape |-> shape]

\* lower_module and generate_function on the source of the shape
Emitting ==
    /\ ~emitted.called
    /\ \E l \in {lower_module(IRLowering_new, ChainSource(emitted.shape))} :
          emitted' =
              IF ~l.ok THEN [called |-> TRUE, shape |-> emitted.shape, ok |-> FALSE]
              ELSE Let(generate_function(l.ir.functions[1]), LAMBDA f :
                   [called |-> TRUE, shape |-> emitted.shape, ok |-> TRUE,
                    declared |-> DeclaredLocals(l.ir.functions[1], f),
                    named |-> Len(l.ir.functions[1].locals),
                    used |-> UsedLocals(f.code)])
    /\ UNCHANGED <<interpVars, execVars, runVars, compileVars, validation, verdict, hashed,
                   queue, node>>

NextLocals == Emitting

SpecLocals == InitLocals /\ [][NextLocals]_vars

(***************************************************************************)
(* Claims about the locals of emitted code.                                *)
(***************************************************************************)
\* C26: every local index that the emitted code of a function reads or
\* writes is below that function's declared local count len(locals) +
\* scratch, for every accepted source, whatever the number and nesting
\* depth of its loops and expressions.
C26_LocalsDeclared ==
    (emitted.called /\ emitted.ok)
        => \A l \in emitted.used : l < emitted.declared

\* the indexes stay below the declared count while an addition has at most
\* 12 additions nested in its left operand, less one for every two
\* enclosing loops; - and // do not add to the scratch they use
ShallowLocalsDeclared ==
    (emitted.called /\ emitted.ok
       /\ (emitted.shape.op = "Add"
             => 2 * (emitted.shape.terms - 2) + 8 + emitted.shape.depth < SCRATCH_LOCALS))
        => \A l \in emitted.used : l < emitted.declared

(***************************************************************************)
(* Claims about a failed execute_opcode.                                   *)
(***************************************************************************)
\* the call that the step makes is an execute_opcode that returns an error
FailedStep == ExecStep /\ lastCall'.res # "Ok"

StateKept ==
    /\ stack' = stack
    /\ locals' = locals
    /\ memory' = memory
    /\ pc' = pc
    /\ fuel' = fuel

\* C27: when execute_opcode returns an error (out of fuel, stack underflow
\* or overflow, type mismatch, divide by zero, local index or memory out of
\* bounds, unsupported opcode), the interpreter's stack, locals, memory, pc
\* and fuel are the same as before the call.
C27_ErrorLeavesState == [][FailedStep => StateKept]_vars

\* out of fuel leaves the state as it was; every other error has taken one
\* unit of fuel, and leaves locals and memory as they were and the stack no
\* deeper than it was
ErrorTakesFuel ==
    [][FailedStep
         => IF lastCall'.res = "out of fuel" THEN StateKept
            ELSE /\ fuel' = fuel - 1
                 /\ locals' = locals
                 /\ memory' = memory
                 /\ Depth(stack') <= Depth(stack)]_vars

(***************************************************************************)
(* The hash specification: two interpreter states that differ in one       *)
(* component, serialized as compute_state_hash feeds them to the hasher.   *)
(***************************************************************************)
MaxStackVals == 1

MaxLocalVals == 2

HashValues == {I32(0), I32(1), I64(0)}

\* the stack holding vals, the first pushed first
RECURSIVE StackOf(_)
StackOf(vals) ==
    IF vals = <<>> THEN EmptyStack
    ELSE VecPush(StackOf(SubSeq(vals, 1, Len(vals) - 1)), vals[Len(vals)])

HashStacks == {StackOf(vals) : vals \in UNION {[1..n -> HashValues] : n \in 0..MaxStackVals}}

HashLocals == UNION {[1..n -> HashValues] : n \in 0..MaxLocalVals}

\* memories of zero bytes, none or four
HashMemories == {[len |-> 0], [len |-> 4]}

HashStates ==
    [stack : HashStacks, locals : HashLocals, memory : HashMemories,
     pc : {0, 1}, fuel : {0, 1}]

Components == {"stack", "locals", "memory", "pc", "fuel"}

\* the states that differ from s in the one component c
Variants(s, c) ==
    CASE c = "stack" -> {[s EXCEPT !.stack = x] : x \in HashStacks \ {s.stack}}
      [] c = "locals" -> {[s EXCEPT !.locals = x] : x \in HashLocals \ {s.locals}}
      [] c = "memory" -> {[s EXCEPT !.memory = x] : x \in HashMemories \ {s.memory}}
      [] c = "pc" -> {[s EXCEPT !.pc = x] : x \in {0, 1} \ {s.pc}}
      [] c = "fuel" -> {[s EXCEPT !.fuel = x] : x \in {0, 1} \ {s.fuel}}

\* usize on wasm32, the target the contract is built for: the narrower one
StylusUsize == CHOOSE t \in Targets : \A o \in Targets : t <= o

InitHash ==
    /\ ExecIdle
    /\ InterpIdle
    /\ RunIdle
    /\ CompileIdle
    /\ validation = [called |-> FALSE]
    /\ verdict = [called |-> FALSE]
    /\ emitted = [called |-> FALSE]
    /\ \E s \in HashStates : hashed = [called |-> FALSE, one |-> s]
    /\ queue = [called |-> FALSE]
    /\ node = [called |-> FALSE]

\* the bytes compute_state_hash hashes for the state and for a state that
\* differs from it in one component
Serialize ==
    /\ ~hashed.called
    /\ \E c \in Components : \E other \in Variants(hashed.one, c) :
          hashed' = [called |-> TRUE, one |-> hashed.one, other |-> other,
                     differ |-> c,
                     one_bytes |-> StateBytes(hashed.one, StylusUsize),
                     other_bytes |-> StateBytes(other, StylusUsize)]
    /\ UNCHANGED <<interpVars, execVars, runVars, compileVars, validation, verdict,
                   emitted, queue, node>>

NextHash == Serialize

SpecHash == InitHash /\ [][NextHash]_vars

(***************************************************************************)
(* Claims about the serialization.                                         *)
(***************************************************************************)
\* C28: the canonical state serialization is injective on the hashed
\* components: two interpreter states that differ in the stack (values or
\* value types), the locals (values or value types), the first 1024 bytes
\* of memory, the pc or the fuel are serialized to different byte strings
\* before hashing.
C28_Injective == hashed.called => hashed.one_bytes # hashed.other_bytes

\* the types of the values of a sequence
TypesOf(vals) == [j \in DOMAIN vals |-> vals[j].t]

\* states that differ in a component other than the locals, or in locals
\* of the same types, are serialized differently
InjectiveButLocalTypes ==
    (hashed.called
       /\ (hashed.differ = "locals"
             => TypesOf(hashed.one.locals) = TypesOf(hashed.other.locals)))
        => hashed.one_bytes # hashed.other_bytes

\* ---------------------------------------------------------------------------
\* The persistent job queue of the verifier service
\* (python-verifier/src/queue.rs).  The sled database holds the records
\* "job:<id>", "result:<id>" and "error:<id>"; the channel holds the jobs
\* handed to the worker.
\* ---------------------------------------------------------------------------

\* largest max_retries a submitted job carries
MaxRetries == 2

\* jobs the channel holds before send waits
MaxChannel == 2

JobIds == {"sample", "other"}

\* no "job:<id>" record in the database
NoJob == [present |-> FALSE]

\* the fields of QueuedJob the queue reads
QueuedJob(id, retry_count, max_retries) ==
    [present |-> TRUE, id |-> id, retry_count |-> retry_count,
     max_retries |-> max_retries]

\* the jobs the service submits: retry_count 0
SubmittedJobs == {QueuedJob(id, 0, m) : id \in JobIds, m \in 0..MaxRetries}

\* JobQueue::new
JobQueue_new ==
    [job |-> [id \in JobIds |-> NoJob], result |-> {}, error |-> {},
     channel |-> <<>>]

\* JobQueue::submit
submit(q, job) ==
    [q EXCEPT !.job[job.id] = job, !.channel = Append(@, job)]

\* JobQueue::next
next(q) == [q EXCEPT !.channel = Tail(@)]

\* JobQueue::complete
complete(q, job_id) ==
    [q EXCEPT !.result = @ \cup {job_id}, !.job[job_id] = NoJob]

\* fail retrying while retry_count <= max_retries
fail_inclusive(q, job_id) ==
    IF q.job[job_id].present
    THEN LET job == q.job[job_id] IN
         IF job.retry_count <= job.max_retries
         THEN LET retried == [job EXCEPT !.retry_count = @ + 1] IN
              [q EXCEPT !.job[job_id] = retried,
                        !.channel = Append(@, retried)]
         ELSE [q EXCEPT !.error = @ \cup {job_id}, !.job[job_id] = NoJob]
    ELSE q

\* JobQueue::fail
fail(q, job_id) ==
    IF q.job[job_id].present
    THEN LET job == q.job[job_id] IN
         IF job.retry_count < job.max_retries
         THEN LET retried == [job EXCEPT !.retry_count = @ + 1] IN
              [q EXCEPT !.job[job_id] = retried,
                        !.channel = Append(@, retried)]
         ELSE [q EXCEPT !.error = @ \cup {job_id}, !.job[job_id] = NoJob]
    ELSE q

\* the queue, and for each id the re-enqueues by fail since its latest submit
\* and the max_retries of that submit
InitQueue ==
    /\ InterpIdle
    /\ ExecIdle
    /\ RunIdle
    /\ CompileIdle
    /\ validation = [called |-> FALSE]
    /\ verdict = [called |-> FALSE]
    /\ emitted = [called |-> FALSE]
    /\ hashed = [called |-> FALSE]
    /\ node = [called |-> FALSE]
    /\ queue = [called |-> FALSE, q |-> JobQueue_new,
                requeued |-> [id \in JobIds |-> 0],
                limit |-> [id \in JobIds |-> 0],
                last |-> [op |-> "new"]]

NotQueue ==
    <<interpVars, execVars, runVars, compileVars, validation, verdict, emitted,
      hashed, node>>

QueueSubmit ==
    /\ Len(queue.q.channel) < MaxChannel
    /\ \E job \in SubmittedJobs :
          queue' = [called |-> TRUE, q |-> submit(queue.q, job),
                    requeued |-> [queue.requeued EXCEPT ![job.id] = 0],
                    limit |-> [queue.limit EXCEPT ![job.id] = job.max_retries],
                    last |-> [op |-> "submit", id |-> job.id]]
    /\ UNCHANGED NotQueue

QueueNext ==
    /\ queue.q.channel # <<>>
    /\ queue' = [queue EXCEPT !.called = TRUE, !.q = next(queue.q),
                              !.last = [op |-> "next",
                                        id |-> Head(queue.q.channel).id]]
    /\ UNCHANGED NotQueue

QueueComplete ==
    /\ \E id \in JobIds :
          queue' = [queue EXCEPT !.called = TRUE, !.q = complete(queue.q, id),
                                 !.last = [op |-> "complete", id |-> id]]
    /\ UNCHANGED NotQueue

QueueFail ==
    /\ Len(queue.q.channel) < MaxChannel
    /\ \E id \in JobIds :
          LET after == fail(queue.q, id) IN
          queue' = [queue EXCEPT
                      !.called = TRUE, !.q = after,
                      !.requeued[id] =
                          @ + Len(after.channel) - Len(queue.q.channel),
                      !.last = [op |-> "fail", id |-> id,
                                found |-> queue.q.job[id].present]]
    /\ UNCHANGED NotQueue

NextQueue == QueueSubmit \/ QueueNext \/ QueueComplete \/ QueueFail

SpecQueue == InitQueue /\ [][NextQueue]_vars

\* the stored retry_count of every job is at most its max_retries, and fail
\* has re-enqueued it at most max_retries times
RetriesBounded ==
    \A id \in JobIds :
        /\ queue.q.job[id].present
              => queue.q.job[id].retry_count <= queue.q.job[id].max_retries
        /\ queue.requeued[id] <= queue.limit[id]

\* a fail call on a job whose retry_count is max_retries removes the job
\* record and writes the error record
FailAtLimitGivesUp ==
    \A id \in JobIds :
        (/\ queue'.last.op = "fail"
         /\ queue'.last.id = id
         /\ queue.q.job[id].present
         /\ queue.q.job[id].retry_count = queue.q.job[id].max_retries)
            => /\ ~queue'.q.job[id].present
               /\ id \in queue'.q.error
               /\ queue'.q.channel = queue.q.channel

\* a fail call on an id without a job record changes nothing
FailWithoutRecordIsNoop ==
    \A id \in JobIds :
        (/\ queue'.last.op = "fail"
         /\ queue'.last.id = id
         /\ ~queue.q.job[id].present)
            => queue'.q = queue.q

\* C29: for any sequence of submit, fail and complete calls the stored
\* retry_count of a job never exceeds its max_retries and fail re-enqueues a
\* submitted job at most max_retries times; the fail call made at
\* retry_count = max_retries removes the job record and writes the error
\* record, and fail calls for that id after it change nothing.
C29_RetriesBounded ==
    /\ []RetriesBounded
    /\ [][FailAtLimitGivesUp /\ FailWithoutRecordIsNoop]_vars

\* fail found no record for a job that was retried MaxRetries times and then
\* given up
C29_Witness ==
    /\ queue.called
    /\ queue.last = [op |-> "fail", id |-> "sample", found |-> FALSE]
    /\ "sample" \in queue.q.error
    /\ "sample" \notin queue.q.result
    /\ ~queue.q.job["sample"].present
    /\ queue.requeued["sample"] = MaxRetries
    /\ queue.limit["sample"] = MaxRetries

\* ---------------------------------------------------------------------------
\* The executor node's main loop (node/executor/src/executor.rs) and the
\* transactions it sends through the escrow client
\* (node/common/src/contracts.rs).  The chain, the storage the module and the
\* input are fetched from, and the sandbox are outside the node: each of
\* their answers is either Ok or Err.
\* ---------------------------------------------------------------------------

\* pending jobs one query returns
MaxJobs == 2

PendingIds == 1..MaxJobs

\* pay_amt is 2^pay_exp USDC (10^6 units), a U256
PayExponents == {12, 13, 255}

\* the fields of JobSpec the loop reads
JobSpecs == [job_id : PendingIds, pay_exp : PayExponents]

\* the lists of pending jobs, each job once
PendingLists ==
    {jobs \in UNION {[1..n -> JobSpecs] : n \in 0..MaxJobs} :
        \A i, j \in DOMAIN jobs : i # j => jobs[i].job_id # jobs[j].job_id}

\* pay_amt.checked_mul(2) on 2^pay_exp: the exponent of the product, or
\* None past 2^256 - 1
checked_mul_2(pay_exp) ==
    IF pay_exp + 1 >= 256 THEN [some |-> FALSE]
    ELSE [some |-> TRUE, exp |-> pay_exp + 1]

\* 2^exp USDC > max_collateral, which is 10000 USDC: 2^13 = 8192, 2^14 = 16384
exceeds_max_collateral(exp) == exp >= 14

\* the job passes the collateral checks of run and of execute_job
collateral_ok(job) ==
    LET required == checked_mul_2(job.pay_exp) IN
    required.some /\ ~exceeds_max_collateral(required.exp)

\* EscrowClient::accept_job: one acceptJob transaction
accept_job(log, job_id, site, ok) ==
    Append(log, [tx |-> "acceptJob", job_id |-> job_id, site |-> site,
                 ok |-> ok])

\* EscrowClient::submit_receipt: one submitReceipt transaction
submit_receipt(log, job_id, site, ok) ==
    Append(log, [tx |-> "submitReceipt", job_id |-> job_id, site |-> site,
                 ok |-> ok])

\* the node asleep at the head of the loop; log holds the transactions of
\* the current iteration, executed the jobs the sandbox has run in it
InitNode ==
    /\ InterpIdle
    /\ ExecIdle
    /\ RunIdle
    /\ CompileIdle
    /\ validation = [called |-> FALSE]
    /\ verdict = [called |-> FALSE]
    /\ emitted = [called |-> FALSE]
    /\ hashed = [called |-> FALSE]
    /\ queue = [called |-> FALSE]
    /\ node = [called |-> FALSE, pc |-> "sleep", jobs |-> <<>>, log |-> <<>>,
               executed |-> {}]

NotNode ==
    <<interpVars, execVars, runVars, compileVars, validation, verdict, emitted,
      hashed, queue>>

\* the job the for loop is at
CurrentJob == Head(node.jobs)

\* the for loop moves to the next job
Continue == [node EXCEPT !.pc = "for", !.jobs = Tail(@)]

\* run, lines 73-75: sleep, then query the pending jobs
PollPending ==
    /\ node.pc = "sleep"
    /\ \E jobs \in PendingLists :
          node' = [called |-> TRUE, pc |-> "for", jobs |-> jobs, log |-> <<>>,
                   executed |-> {}]
    /\ UNCHANGED NotNode

\* run, lines 77-90: the next job and its collateral check
CheckCollateral ==
    /\ node.pc = "for"
    /\ node' = IF node.jobs = <<>> THEN [node EXCEPT !.pc = "sleep"]
               ELSE IF collateral_ok(CurrentJob)
                    THEN [node EXCEPT !.pc = "accept"]
                    ELSE Continue
    /\ UNCHANGED NotNode

\* run, lines 92-117: accept the job
RunAccept ==
    /\ node.pc = "accept"
    /\ \E ok \in BOOLEAN :
          LET log == accept_job(node.log, CurrentJob.job_id, "run", ok) IN
          node' = IF ok THEN [node EXCEPT !.pc = "fetch", !.log = log]
                  ELSE [Continue EXCEPT !.log = log]
    /\ UNCHANGED NotNode

\* execute_job, lines 130-141: fetch module and input, validate the module,
\* check the collateral
FetchAndValidate ==
    /\ node.pc = "fetch"
    /\ \E ok \in BOOLEAN :
          node' = IF ok /\ collateral_ok(CurrentJob)
                  THEN [node EXCEPT !.pc = "accept_on_chain"]
                  ELSE Continue
    /\ UNCHANGED NotNode

\* execute_job, lines 144-148: accept on-chain
ExecuteAccept ==
    /\ node.pc = "accept_on_chain"
    /\ \E ok \in BOOLEAN :
          LET log == accept_job(node.log, CurrentJob.job_id, "execute_job", ok)
          IN  node' = IF ok THEN [node EXCEPT !.pc = "sandbox", !.log = log]
                      ELSE [Continue EXCEPT !.log = log]
    /\ UNCHANGED NotNode

\* execute_job, lines 151-173: run the module in the sandbox, sign the receipt
SandboxExecute ==
    /\ node.pc = "sandbox"
    /\ \E ok \in BOOLEAN :
          node' = IF ok
                  THEN [node EXCEPT !.pc = "submit_receipt",
                                    !.executed = @ \cup {CurrentJob.job_id}]
                  ELSE Continue
    /\ UNCHANGED NotNode

\* execute_job, lines 176-184: submit the receipt
ExecuteSubmit ==
    /\ node.pc = "submit_receipt"
    /\ \E ok \in BOOLEAN :
          LET log == submit_receipt(node.log, CurrentJob.job_id,
                                    "execute_job", ok)
          IN  node' = IF ok THEN [node EXCEPT !.pc = "executed", !.log = log]
                      ELSE [Continue EXCEPT !.log = log]
    /\ UNCHANGED NotNode

\* run, lines 101-108: submit the receipt execute_job returned; an error ends
\* run
RunSubmit ==
    /\ node.pc = "executed"
    /\ \E ok \in BOOLEAN :
          LET log == submit_receipt(node.log, CurrentJob.job_id, "run", ok) IN
          node' = IF ok THEN [Continue EXCEPT !.log = log]
                  ELSE [node EXCEPT !.pc = "returned", !.log = log]
    /\ UNCHANGED NotNode

NextNode ==
    \/ PollPending
    \/ CheckCollateral
    \/ RunAccept
    \/ FetchAndValidate
    \/ ExecuteAccept
    \/ SandboxExecute
    \/ ExecuteSubmit
    \/ RunSubmit

SpecNode == InitNode /\ [][NextNode]_vars

\* the positions in the iteration's log of the transactions tx for the job
Sent(tx, job_id) ==
    {i \in DOMAIN node.log :
        node.log[i].tx = tx /\ node.log[i].job_id = job_id}

\* every submitReceipt for a job follows a successful acceptJob for it, and
\* the sandbox has run the job
ReceiptAfterAcceptAndExecute ==
    \A job_id \in PendingIds :
        \A r \in Sent("submitReceipt", job_id) :
            /\ job_id \in node.executed
            /\ \E a \in Sent("acceptJob", job_id) :
                  a < r /\ node.log[a].ok

TwoAcceptsTwoReceipts ==
    /\ \A job_id \in PendingIds :
          /\ Cardinality(Sent("acceptJob", job_id)) <= 2
          /\ Cardinality(Sent("submitReceipt", job_id)) <= 2
          /\ \A a, b \in Sent("acceptJob", job_id) : a < b => node.log[a].ok
    /\ ReceiptAfterAcceptAndExecute

=============================================================================
